---- MODULE Spec2Model ----
(***************************************************************************)
(* no_std_io: offset based decoding (Reader), cursor based decoding        *)
(* (StreamReader) and the per-type EndianRead codecs they delegate to.     *)
(*                                                                         *)
(* A byte buffer is a sequence of bytes, 1-indexed here: the byte at the   *)
(* Rust offset o is bytes[o + 1].  A Result is a record with the field ok: *)
(* [ok |-> TRUE, data, read_bytes] for Ok(ReadOutput), [ok |-> TRUE, data] *)
(* for Ok(value) and [ok |-> FALSE, error] for Err(error).                 *)
(***************************************************************************)
EXTENDS Integers, Sequences, FiniteSets, TLC

VARIABLES
    bytes,   \* the buffer behind the Reader (MockReader.bytes, MockStream.bytes)
    base,    \* the address of bytes[0] modulo the largest alignment
    index,   \* the cursor (MockStream.index)
    out,     \* the last call, its arguments and what it returned
    i0,      \* the index at which the current run of stream reads started
    sum      \* the bytes the successful reads of the run reported as consumed

vars == <<bytes, base, index, out, i0, sum>>

----------------------------------------------------------------------------
(* Bounds of the model *)

MaxLen == 5       \* buffers of 0 .. MaxLen bytes
MaxByte == 1      \* byte values 0 .. MaxByte
MaxSize == 2      \* SIZE of the arrays read, 0 .. MaxSize
usize_MAX == 15   \* the largest value of the machine word of the overflow checks

ByteVals == 0 .. MaxByte
MaxIndex == MaxLen + 2               \* offsets and indexes tried go past the end
Offsets == 0 .. (MaxLen + 1)

RECURSIVE SeqsUpTo(_)
SeqsUpTo(n) ==
    IF n = 0 THEN {<<>>}
    ELSE LET shorter == SeqsUpTo(n - 1)
         IN  shorter \cup {Append(s, b) : s \in {t \in shorter : Len(t) = n - 1}, b \in ByteVals}

Buffers == SeqsUpTo(MaxLen)

----------------------------------------------------------------------------
(* Error and Result values *)

InvalidSize(wanted_size, offset, data_len) ==
    [kind |-> "InvalidSize", wanted_size |-> wanted_size, offset |-> offset,
     data_len |-> data_len]

InvalidAlignment(wanted_size, source_size, source_offset) ==
    [kind |-> "InvalidAlignment", wanted_size |-> wanted_size,
     source_size |-> source_size, source_offset |-> source_offset]

InvalidRead(message) == [kind |-> "InvalidRead", message |-> message]

Err(error) == [ok |-> FALSE, error |-> error]

Ok(data) == [ok |-> TRUE, data |-> data]

ReadOutput(data, read_bytes) == [ok |-> TRUE, data |-> data, read_bytes |-> read_bytes]

\* ReadOutput::into_data under the ? of the caller
into_data(result) == IF result.ok THEN Ok(result.data) ELSE Err(result.error)

\* bytes[from .. to) with Rust's 0-based offsets
Slice(data, from, to) == SubSeq(data, from + 1, to)

----------------------------------------------------------------------------
(* The item types T the generic operations are instantiated with *)

Primitives == {"u8", "u16", "u32"}

\* core::mem::size_of::<T>(): of a primitive; of Test, whose u8 and u32 are
\* laid out at the alignment of the u32; of ListContainer<T>(Vec<T>), the three
\* words of a Vec on a 64-bit target
size_of(T) ==
    CASE T = "u8" -> 1 [] T = "u16" -> 2 [] T = "u32" -> 4
      [] T = "Test" -> 8
      [] T \in {"ListU16", "ListU32"} -> 24

\* core::mem::align_of::<T>() of a primitive
align_of(T) == CASE T = "u8" -> 1 [] T = "u16" -> 2 [] T = "u32" -> 4

\* #[derive(EndianRead)] / #[derive(EndianWrite)] structs, by the types of
\* their fields in declaration order (for an array field, the type of its
\* elements): Test is the struct of the macro tests; Wrap1 and Wrap2 nest a
\* failing type one and two composites deep; Padded is
\* {first: u8, #[no_std_io(pad_before = 2)] second: u16}, WithArray is
\* {first: u8, items: [u16; 2]} and Empty is a struct with no fields, {};
\* Backtracked is {first: u16, #[no_std_io(backtrace = 1)] second: u8} and
\* Triple is {first: u8, second: u32, third: u8}.
DerivedFields(T) ==
    CASE T = "Test"      -> <<"u8", "u32">>
      [] T = "Wrap1"     -> <<"u8", "OffsetErrorTest">>
      [] T = "Wrap2"     -> <<"u8", "Wrap1">>
      [] T = "Padded"    -> <<"u8", "u16">>
      [] T = "WithArray" -> <<"u8", "u16">>
      [] T = "Empty"     -> <<>>
      [] T = "Backtracked" -> <<"u16", "u8">>
      [] T = "Triple"    -> <<"u8", "u32", "u8">>

Derived == {"Test", "Wrap1", "Wrap2"}

\* the derived structs whose fields carry an attribute or are arrays, and
\* the one without fields
Attributed == {"Padded", "WithArray", "Empty"}

\* the structs that derive EndianWrite only, as those of the write tests do
WriteOnly == {"Backtracked", "Triple"}

\* backtrace = N as the declaration of every field states it, 0 without the
\* attribute
backtrace(T) == IF T = "Backtracked" THEN <<0, 1>> ELSE [i \in 1 .. Len(DerivedFields(T)) |-> 0]

\* MacroArgs { pad_before } of every field, 0 when the field has no attribute
pad_before(T) == IF T = "Padded" THEN <<0, 2>> ELSE [i \in 1 .. Len(DerivedFields(T)) |-> 0]

\* Type::Array of every field whose element type is not u8: its length, and
\* whether the field is such an array at all
ArrayFields(T) ==
    IF T = "WithArray"
    THEN <<[array |-> FALSE, SIZE |-> 0], [array |-> TRUE, SIZE |-> 2]>>
    ELSE [i \in 1 .. Len(DerivedFields(T)) |-> [array |-> FALSE, SIZE |-> 0]]

\* what the derive macros see of the fields of T
DerivedLayout(T) ==
    [i \in 1 .. Len(DerivedFields(T)) |->
        [ty |-> DerivedFields(T)[i], pad_before |-> pad_before(T)[i],
         array |-> ArrayFields(T)[i].array, SIZE |-> ArrayFields(T)[i].SIZE]]

\* ListContainer<T>, by its element type
ListElem(T) == CASE T = "ListU16" -> "u16" [] T = "ListU32" -> "u32"

Lists == {"ListU16", "ListU32"}

\* The types whose try_read_le / try_read_be always fail, by the error they
\* return: CustomErrorTest and OffsetErrorTest of the Reader tests, and
\* AlignErrorTest, which fails the same way with an alignment error.
FailingError(T) ==
    CASE T = "CustomErrorTest" -> InvalidRead("Custom error!")
      [] T = "OffsetErrorTest" -> InvalidSize(8, 1, 0)
      [] T = "AlignErrorTest"  -> InvalidAlignment(4, 4, 1)

Failing == {"CustomErrorTest", "OffsetErrorTest", "AlignErrorTest"}

Types == Primitives \cup Derived \cup Lists \cup Failing

----------------------------------------------------------------------------
(* Byte order conversions of the primitives *)

RECURSIVE from_le_bytes(_)
from_le_bytes(b) == IF b = <<>> THEN 0 ELSE Head(b) + 256 * from_le_bytes(Tail(b))

RECURSIVE from_be_bytes(_)
from_be_bytes(b) ==
    IF b = <<>> THEN 0 ELSE 256 * from_be_bytes(SubSeq(b, 1, Len(b) - 1)) + b[Len(b)]

----------------------------------------------------------------------------
(* Cursor and StreamContainer: a stream is [bytes, index] *)

StreamContainer_new(data) == [bytes |-> data, index |-> 0]

get_index(stream) == stream.index

set_index(stream, i) == [stream EXCEPT !.index = i]

increment_by(stream, count) == set_index(stream, get_index(stream) + count)

\* returns the index before the increment, and the stream after it
swap_incremented_index(stream, count) ==
    [index |-> get_index(stream), stream |-> increment_by(stream, count)]

swap_incremented_index_for_type(T, stream) == swap_incremented_index(stream, size_of(T))

----------------------------------------------------------------------------
(* Reader *)

RECURSIVE try_read_le(_, _), try_read_be(_, _)
RECURSIVE read_array_stream_le(_, _, _), read_array_stream_be(_, _, _)

get_slice_at_offset(data, offset) ==
    IF offset >= Len(data) THEN <<>> ELSE Slice(data, offset, Len(data))

add_error_context(result, offset, data_len) ==
    IF result.ok THEN result
    ELSE LET err == result.error
         IN  CASE err.kind = "InvalidSize" ->
                    Err(InvalidSize(err.wanted_size, offset + err.offset, data_len))
               [] err.kind = "InvalidAlignment" ->
                    Err(InvalidAlignment(err.wanted_size, err.source_size,
                                         offset + err.source_offset))
               [] OTHER -> Err(err)

\* a read_le_with_output that returns the codec's error as it is
read_le_with_output_no_context(T, data, offset) ==
    try_read_le(T, get_slice_at_offset(data, offset))

read_le_with_output(T, data, offset) ==
    LET slice == get_slice_at_offset(data, offset)
    IN  add_error_context(try_read_le(T, slice), offset, Len(data))

\* a read_le of a primitive that reinterprets the bytes in place, as read
\* does, and so needs them aligned
read_le_in_place(T, data, offset) ==
    IF offset % align_of(T) # 0
    THEN Err(InvalidAlignment(size_of(T), size_of(T), offset))
    ELSE into_data(read_le_with_output(T, data, offset))

read_le(T, data, offset) == into_data(read_le_with_output(T, data, offset))

\* a read_be_with_output that reports its own offset in place of the sum
read_be_with_output_overwrites(T, data, offset) ==
    LET result == try_read_be(T, get_slice_at_offset(data, offset))
    IN  IF result.ok THEN result
        ELSE CASE result.error.kind = "InvalidSize" ->
                    Err(InvalidSize(result.error.wanted_size, offset, Len(data)))
               [] result.error.kind = "InvalidAlignment" ->
                    Err(InvalidAlignment(result.error.wanted_size,
                                         result.error.source_size, offset))
               [] OTHER -> result

read_be_with_output(T, data, offset) ==
    LET slice == get_slice_at_offset(data, offset)
    IN  add_error_context(try_read_be(T, slice), offset, Len(data))

read_be(T, data, offset) == into_data(read_be_with_output(T, data, offset))

\* Ok(&data[offset..offset_end]) or the size error
\* a get_slice_of_size whose bound check is off by one
get_slice_of_size_off_by_one(data, offset, size) ==
    LET offset_end == offset + size
    IN  IF Len(data) <= offset_end
        THEN Err(InvalidSize(size, offset, Len(data)))
        ELSE Ok(Slice(data, offset, offset_end))

get_slice_of_size(data, offset, size) ==
    LET offset_end == offset + size
    IN  IF Len(data) < offset_end
        THEN Err(InvalidSize(size, offset, Len(data)))
        ELSE Ok(Slice(data, offset, offset_end))

get_sized_slice(T, data, offset) ==
    LET result_size == size_of(T)
        offset_end == offset + result_size
    IN  IF Len(data) < offset_end
        THEN Err(InvalidSize(result_size, offset, Len(data)))
        ELSE Ok(Slice(data, offset, offset_end))

\* safe_transmute::transmute_many_permissive::<T> on the slice that starts at
\* address addr: refused when the address is not a multiple of T's alignment.
\* The T it yields is identified with the bytes that represent it.
transmute_many_permissive(T, slice, addr) ==
    IF addr % align_of(T) # 0 THEN Err("Unaligned") ELSE Ok(<<slice>>)

\* a get_transmutable that checks the alignment before the size
get_transmutable_alignment_first(T, data, data_addr, offset) ==
    IF (data_addr + offset) % align_of(T) # 0
    THEN Err(InvalidAlignment(size_of(T), size_of(T), offset))
    ELSE get_sized_slice(T, data, offset)

\* data_addr is the address of data[0] (modulo the largest alignment)
get_transmutable(T, data, data_addr, offset) ==
    LET sized == get_sized_slice(T, data, offset)
    IN  IF ~sized.ok THEN sized
        ELSE LET read_value == transmute_many_permissive(T, sized.data, data_addr + offset)
             IN  IF ~read_value.ok
                 THEN Err(InvalidAlignment(size_of(T), Len(sized.data), offset))
                 ELSE Ok(Head(read_value.data))

read(T, data, data_addr, offset) == get_transmutable(T, data, data_addr, offset)

read_byte_vec(data, offset, size) == get_slice_of_size(data, offset, size)


----------------------------------------------------------------------------
(* StreamReader: every operation returns [ret, stream], the value returned *)
(* and the stream as the call leaves it                                    *)

\* a read_stream_le that moves the cursor before it knows the read succeeded
read_stream_le_moves_on_error(T, stream) ==
    LET idx == get_index(stream)
        read_value == read_le_with_output(T, stream.bytes, idx)
    IN  IF ~read_value.ok
        THEN [ret |-> Err(read_value.error), stream |-> increment_by(stream, 1)]
        ELSE [ret |-> Ok(read_value.data),
              stream |-> increment_by(stream, read_value.read_bytes)]

read_stream_le(T, stream) ==
    LET idx == get_index(stream)
        read_value == read_le_with_output(T, stream.bytes, idx)
    IN  IF ~read_value.ok
        THEN [ret |-> Err(read_value.error), stream |-> stream]
        ELSE [ret |-> Ok(read_value.data),
              stream |-> increment_by(stream, read_value.read_bytes)]

\* a read_stream_be that sets the cursor to the bytes read instead of adding them
read_stream_be_sets_index(T, stream) ==
    LET idx == get_index(stream)
        read_value == read_be_with_output(T, stream.bytes, idx)
    IN  IF ~read_value.ok
        THEN [ret |-> Err(read_value.error), stream |-> stream]
        ELSE [ret |-> Ok(read_value.data),
              stream |-> set_index(stream, read_value.read_bytes)]

\* a read_stream_be that rewinds the cursor when the read fails
read_stream_be_rewinds(T, stream) ==
    LET idx == get_index(stream)
        read_value == read_be_with_output(T, stream.bytes, idx)
    IN  IF ~read_value.ok
        THEN [ret |-> Err(read_value.error), stream |-> set_index(stream, 0)]
        ELSE [ret |-> Ok(read_value.data),
              stream |-> increment_by(stream, read_value.read_bytes)]

read_stream_be(T, stream) ==
    LET idx == get_index(stream)
        read_value == read_be_with_output(T, stream.bytes, idx)
    IN  IF ~read_value.ok
        THEN [ret |-> Err(read_value.error), stream |-> stream]
        ELSE [ret |-> Ok(read_value.data),
              stream |-> increment_by(stream, read_value.read_bytes)]

----------------------------------------------------------------------------
(* EndianRead implementations *)

\* the primitives: fixed size, direct byte order conversion
primitive_try_read_le(T, b) ==
    LET byte_count == size_of(T)
    IN  IF byte_count > Len(b)
        THEN Err(InvalidSize(byte_count, 0, Len(b)))
        ELSE ReadOutput(from_le_bytes(SubSeq(b, 1, byte_count)), byte_count)

primitive_try_read_be(T, b) ==
    LET byte_count == size_of(T)
    IN  IF byte_count > Len(b)
        THEN Err(InvalidSize(byte_count, 0, Len(b)))
        ELSE ReadOutput(from_be_bytes(SubSeq(b, 1, byte_count)), byte_count)

\* #[derive(EndianRead)]: a stream over the bytes; per field in declaration
\* order the pad_before bytes are skipped and the field is read from the
\* stream (an array of non-byte elements element by element); the bytes read
\* are the final index
RECURSIVE derived_fields_le(_, _, _)
derived_fields_le(fields, stream, value) ==
    IF fields = <<>> THEN ReadOutput(value, get_index(stream))
    ELSE LET field == Head(fields)
             padded == increment_by(stream, field.pad_before)
             r == IF field.array THEN read_array_stream_le(field.SIZE, field.ty, padded)
                                 ELSE read_stream_le(field.ty, padded)
         IN  IF ~r.ret.ok THEN Err(r.ret.error)
             ELSE derived_fields_le(Tail(fields), r.stream, Append(value, r.ret.data))

derived_try_read_le(T, b) == derived_fields_le(DerivedLayout(T), StreamContainer_new(b), <<>>)

RECURSIVE derived_fields_be(_, _, _)
derived_fields_be(fields, stream, value) ==
    IF fields = <<>> THEN ReadOutput(value, get_index(stream))
    ELSE LET field == Head(fields)
             padded == increment_by(stream, field.pad_before)
             r == IF field.array THEN read_array_stream_be(field.SIZE, field.ty, padded)
                                 ELSE read_stream_be(field.ty, padded)
         IN  IF ~r.ret.ok THEN Err(r.ret.error)
             ELSE derived_fields_be(Tail(fields), r.stream, Append(value, r.ret.data))

derived_try_read_be(T, b) == derived_fields_be(DerivedLayout(T), StreamContainer_new(b), <<>>)

\* ListContainer<T>: the loop `for _ in 0..count`, with `remaining` turns left
RECURSIVE ListContainer_items_le(_, _, _, _)
ListContainer_items_le(E, stream, remaining, list) ==
    IF remaining = 0 THEN ReadOutput(list, get_index(stream) + 1)
    ELSE LET r == read_stream_le(E, stream)
         IN  IF ~r.ret.ok THEN Err(r.ret.error)
             ELSE ListContainer_items_le(E, r.stream, remaining - 1, Append(list, r.ret.data))

ListContainer_try_read_le(T, b) ==
    IF b = <<>> THEN Err(InvalidSize(1, 0, 0))
    ELSE LET count == b[1]
             stream == StreamContainer_new(Slice(b, 1, Len(b)))
         IN  ListContainer_items_le(ListElem(T), stream, count, <<>>)

RECURSIVE ListContainer_items_be(_, _, _, _)
ListContainer_items_be(E, stream, remaining, list) ==
    IF remaining = 0 THEN ReadOutput(list, get_index(stream) + 1)
    ELSE LET r == read_stream_be(E, stream)
         IN  IF ~r.ret.ok THEN Err(r.ret.error)
             ELSE ListContainer_items_be(E, r.stream, remaining - 1, Append(list, r.ret.data))

ListContainer_try_read_be(T, b) ==
    IF b = <<>> THEN Err(InvalidSize(1, 0, 0))
    ELSE LET count == b[1]
             stream == StreamContainer_new(Slice(b, 1, Len(b)))
         IN  ListContainer_items_be(ListElem(T), stream, count, <<>>)

\* a try_read_le that decodes in the other byte order
try_read_le_other_order(T, b) == try_read_be(T, b)

try_read_le(T, b) ==
    CASE T \in Primitives -> primitive_try_read_le(T, b)
      [] T \in Derived \cup Attributed -> derived_try_read_le(T, b)
      [] T \in Lists      -> ListContainer_try_read_le(T, b)
      [] T \in Failing    -> Err(FailingError(T))

try_read_be(T, b) ==
    CASE T \in Primitives -> primitive_try_read_be(T, b)
      [] T \in Derived \cup Attributed -> derived_try_read_be(T, b)
      [] T \in Lists      -> ListContainer_try_read_be(T, b)
      [] T \in Failing    -> Err(FailingError(T))


----------------------------------------------------------------------------
(* StreamReader: the array and byte run reads *)

\* the loop `for elem in &mut data` of read_array_stream_le, `remaining`
\* elements from its end
RECURSIVE read_array_stream_le_elems(_, _, _, _, _, _)
read_array_stream_le_elems(T, stream, idx, remaining, read_bytes, data) ==
    IF remaining = 0
    THEN [ret |-> Ok(data), stream |-> increment_by(stream, read_bytes)]
    ELSE LET read_output == read_le_with_output(T, stream.bytes, idx + read_bytes)
         IN  IF ~read_output.ok
             THEN [ret |-> Err(read_output.error), stream |-> stream]
             ELSE read_array_stream_le_elems(T, stream, idx, remaining - 1,
                      read_bytes + read_output.read_bytes, Append(data, read_output.data))

\* a read_array_stream_le that commits the elements read before a failure
RECURSIVE read_array_stream_le_partial_elems(_, _, _, _, _, _)
read_array_stream_le_partial_elems(T, stream, idx, remaining, read_bytes, data) ==
    IF remaining = 0
    THEN [ret |-> Ok(data), stream |-> increment_by(stream, read_bytes)]
    ELSE LET read_output == read_le_with_output(T, stream.bytes, idx + read_bytes)
         IN  IF ~read_output.ok
             THEN [ret |-> Err(read_output.error), stream |-> increment_by(stream, read_bytes)]
             ELSE read_array_stream_le_partial_elems(T, stream, idx, remaining - 1,
                      read_bytes + read_output.read_bytes, Append(data, read_output.data))

read_array_stream_le_partial(SIZE, T, stream) ==
    read_array_stream_le_partial_elems(T, stream, get_index(stream), SIZE, 0, <<>>)

\* a read_array_stream_le that reads the elements from the start of the
\* buffer: read_bytes instead of index + read_bytes
RECURSIVE read_array_stream_le_from_start_elems(_, _, _, _, _)
read_array_stream_le_from_start_elems(T, stream, remaining, read_bytes, data) ==
    IF remaining = 0
    THEN [ret |-> Ok(data), stream |-> increment_by(stream, read_bytes)]
    ELSE LET read_output == read_le_with_output(T, stream.bytes, read_bytes)
         IN  IF ~read_output.ok
             THEN [ret |-> Err(read_output.error), stream |-> stream]
             ELSE read_array_stream_le_from_start_elems(T, stream, remaining - 1,
                      read_bytes + read_output.read_bytes, Append(data, read_output.data))

read_array_stream_le_from_start(SIZE, T, stream) ==
    read_array_stream_le_from_start_elems(T, stream, SIZE, 0, <<>>)

read_array_stream_le(SIZE, T, stream) ==
    read_array_stream_le_elems(T, stream, get_index(stream), SIZE, 0, <<>>)

RECURSIVE read_array_stream_be_elems(_, _, _, _, _, _)
read_array_stream_be_elems(T, stream, idx, remaining, read_bytes, data) ==
    IF remaining = 0
    THEN [ret |-> Ok(data), stream |-> increment_by(stream, read_bytes)]
    ELSE LET read_output == read_be_with_output(T, stream.bytes, idx + read_bytes)
         IN  IF ~read_output.ok
             THEN [ret |-> Err(read_output.error), stream |-> stream]
             ELSE read_array_stream_be_elems(T, stream, idx, remaining - 1,
                      read_bytes + read_output.read_bytes, Append(data, read_output.data))

read_array_stream_be(SIZE, T, stream) ==
    read_array_stream_be_elems(T, stream, get_index(stream), SIZE, 0, <<>>)

read_byte_stream(size, stream) ==
    LET swapped == swap_incremented_index(stream, size)
    IN  [ret |-> read_byte_vec(stream.bytes, swapped.index, size),
         stream |-> swapped.stream]


----------------------------------------------------------------------------
(* The stream session: a MockStream over the buffer, the calls made on it  *)
(* one after the other.  out holds a call's arguments, the index it found  *)
(* (pre) and what it returned, until the caller drops the result.          *)

NoCall == [op |-> "none"]

Idle == out.op = "none"

Stream == [bytes |-> bytes, index |-> index]

ArrayTypes == Primitives \cup {"ListU16", "OffsetErrorTest"}

Init ==
    /\ bytes \in Buffers
    /\ base = 0
    /\ index = 0
    /\ out = NoCall
    /\ i0 = 0
    /\ sum = 0

\* Cursor::set_index: a new run of stream reads starts at i
SetIndex(i) ==
    /\ Idle
    /\ index' = get_index(set_index(Stream, i))
    /\ i0' = i
    /\ sum' = 0
    /\ UNCHANGED <<bytes, base, out>>

ReadStreamLe(T) ==
    /\ Idle
    /\ LET r == read_stream_le(T, Stream)
           decoded == read_le_with_output(T, bytes, i0 + sum)
       IN  /\ index' = r.stream.index
           /\ out' = [op |-> "read_stream_le", T |-> T, pre |-> index, ret |-> r.ret,
                      consumed |-> IF decoded.ok THEN decoded.read_bytes ELSE 0]
           /\ sum' = IF r.ret.ok /\ decoded.ok THEN sum + decoded.read_bytes ELSE sum
    /\ UNCHANGED <<bytes, base, i0>>

ReadStreamBe(T) ==
    /\ Idle
    /\ LET r == read_stream_be(T, Stream)
           decoded == read_be_with_output(T, bytes, i0 + sum)
       IN  /\ index' = r.stream.index
           /\ out' = [op |-> "read_stream_be", T |-> T, pre |-> index, ret |-> r.ret,
                      consumed |-> IF decoded.ok THEN decoded.read_bytes ELSE 0]
           /\ sum' = IF r.ret.ok /\ decoded.ok THEN sum + decoded.read_bytes ELSE sum
    /\ UNCHANGED <<bytes, base, i0>>

ReadArrayStreamLe(SIZE, T) ==
    /\ Idle
    /\ LET r == read_array_stream_le(SIZE, T, Stream)
       IN  /\ index' = r.stream.index
           /\ out' = [op |-> "read_array_stream_le", T |-> T, SIZE |-> SIZE,
                      pre |-> index, ret |-> r.ret]
           /\ i0' = r.stream.index
    /\ sum' = 0
    /\ UNCHANGED <<bytes, base>>

ReadArrayStreamBe(SIZE, T) ==
    /\ Idle
    /\ LET r == read_array_stream_be(SIZE, T, Stream)
       IN  /\ index' = r.stream.index
           /\ out' = [op |-> "read_array_stream_be", T |-> T, SIZE |-> SIZE,
                      pre |-> index, ret |-> r.ret]
           /\ i0' = r.stream.index
    /\ sum' = 0
    /\ UNCHANGED <<bytes, base>>

ReadByteStream(size) ==
    /\ Idle
    /\ index + size <= MaxIndex
    /\ LET r == read_byte_stream(size, Stream)
       IN  /\ index' = r.stream.index
           /\ out' = [op |-> "read_byte_stream", size |-> size, pre |-> index,
                      ret |-> r.ret]
           /\ i0' = r.stream.index
    /\ sum' = 0
    /\ UNCHANGED <<bytes, base>>

\* the caller is done with the result of the last call
Drop ==
    /\ ~Idle
    /\ out' = NoCall
    /\ UNCHANGED <<bytes, base, index, i0, sum>>

Next ==
    \/ \E i \in 0 .. MaxIndex : SetIndex(i)
    \/ \E T \in Types : ReadStreamLe(T)
    \/ \E T \in Types : ReadStreamBe(T)
    \/ \E SIZE \in 0 .. MaxSize, T \in ArrayTypes : ReadArrayStreamLe(SIZE, T)
    \/ \E SIZE \in 0 .. MaxSize, T \in ArrayTypes : ReadArrayStreamBe(SIZE, T)
    \/ \E size \in 0 .. MaxLen : ReadByteStream(size)
    \/ Drop

Spec == Init /\ [][Next]_vars


----------------------------------------------------------------------------
(* Offset based reads: a MockReader over the buffer, one Reader call at a  *)
(* time at an offset the caller chooses                                    *)

ReadLeWithOutput(T, offset) ==
    /\ Idle
    /\ out' = [op |-> "read_le_with_output", T |-> T, offset |-> offset,
               ret |-> read_le_with_output(T, bytes, offset)]
    /\ UNCHANGED <<bytes, base, index, i0, sum>>

ReadLe(T, offset) ==
    /\ Idle
    /\ out' = [op |-> "read_le", T |-> T, offset |-> offset,
               ret |-> read_le(T, bytes, offset)]
    /\ UNCHANGED <<bytes, base, index, i0, sum>>

ReadBeWithOutput(T, offset) ==
    /\ Idle
    /\ out' = [op |-> "read_be_with_output", T |-> T, offset |-> offset,
               ret |-> read_be_with_output(T, bytes, offset)]
    /\ UNCHANGED <<bytes, base, index, i0, sum>>

ReadBe(T, offset) ==
    /\ Idle
    /\ out' = [op |-> "read_be", T |-> T, offset |-> offset,
               ret |-> read_be(T, bytes, offset)]
    /\ UNCHANGED <<bytes, base, index, i0, sum>>

GetSliceOfSize(offset, size) ==
    /\ Idle
    /\ out' = [op |-> "get_slice_of_size", offset |-> offset, size |-> size,
               ret |-> get_slice_of_size(bytes, offset, size)]
    /\ UNCHANGED <<bytes, base, index, i0, sum>>

NextReader ==
    \/ \E T \in Types, offset \in Offsets : ReadLeWithOutput(T, offset)
    \/ \E T \in Types, offset \in Offsets : ReadLe(T, offset)
    \/ \E T \in Types, offset \in Offsets : ReadBeWithOutput(T, offset)
    \/ \E T \in Types, offset \in Offsets : ReadBe(T, offset)
    \/ \E offset \in Offsets, size \in Offsets : GetSliceOfSize(offset, size)
    \/ Drop

SpecReader == Init /\ [][NextReader]_vars

----------------------------------------------------------------------------
(* Transmuting reads: the same, with the buffer at any address *)

BaseAddresses == 0 .. (align_of("u32") - 1)

InitTransmute ==
    /\ bytes \in Buffers
    /\ base \in BaseAddresses
    /\ index = 0
    /\ out = NoCall
    /\ i0 = 0
    /\ sum = 0

GetSizedSlice(T, offset) ==
    /\ Idle
    /\ out' = [op |-> "get_sized_slice", T |-> T, offset |-> offset,
               ret |-> get_sized_slice(T, bytes, offset)]
    /\ UNCHANGED <<bytes, base, index, i0, sum>>

GetTransmutable(T, offset) ==
    /\ Idle
    /\ out' = [op |-> "get_transmutable", T |-> T, offset |-> offset,
               ret |-> get_transmutable(T, bytes, base, offset)]
    /\ UNCHANGED <<bytes, base, index, i0, sum>>

Read(T, offset) ==
    /\ Idle
    /\ out' = [op |-> "read", T |-> T, offset |-> offset,
               ret |-> read(T, bytes, base, offset)]
    /\ UNCHANGED <<bytes, base, index, i0, sum>>

NextTransmute ==
    \/ \E T \in Primitives, offset \in Offsets : GetSizedSlice(T, offset)
    \/ \E T \in Primitives, offset \in Offsets : GetTransmutable(T, offset)
    \/ \E T \in Primitives, offset \in Offsets : Read(T, offset)
    \/ Drop

SpecTransmute == InitTransmute /\ [][NextTransmute]_vars


----------------------------------------------------------------------------
(* Properties of the stream session (specification Spec) *)

\* What decoding k elements of type T one after the other from offset gives:
\* [ok |-> TRUE, data, end] with the elements and the offset after the last
\* one, or the error of the first element that fails.
RECURSIVE ElementsLe(_, _, _, _), ElementsBe(_, _, _, _)
ElementsLe(T, data, offset, k) ==
    IF k = 0 THEN [ok |-> TRUE, data |-> <<>>, end |-> offset]
    ELSE LET first == read_le_with_output(T, data, offset)
         IN  IF ~first.ok THEN Err(first.error)
             ELSE LET rest == ElementsLe(T, data, offset + first.read_bytes, k - 1)
                  IN  IF ~rest.ok THEN rest
                      ELSE [ok |-> TRUE, data |-> <<first.data>> \o rest.data,
                            end |-> rest.end]

ElementsBe(T, data, offset, k) ==
    IF k = 0 THEN [ok |-> TRUE, data |-> <<>>, end |-> offset]
    ELSE LET first == read_be_with_output(T, data, offset)
         IN  IF ~first.ok THEN Err(first.error)
             ELSE LET rest == ElementsBe(T, data, offset + first.read_bytes, k - 1)
                  IN  IF ~rest.ok THEN rest
                      ELSE [ok |-> TRUE, data |-> <<first.data>> \o rest.data,
                            end |-> rest.end]

\* the result of a call agrees with a decode: same value, or same error
SameOutcome(ret, decoded) ==
    /\ ret.ok = decoded.ok
    /\ IF decoded.ok THEN ret.data = decoded.data ELSE ret.error = decoded.error

\* C1: read_stream_le / read_stream_be decode at the index the call found; on
\* success the index has advanced by exactly the bytes the decode reported as
\* consumed, on failure the error is returned and the index is unchanged.
C1_StreamReadAdvance ==
    /\ out.op = "read_stream_le" =>
          LET decoded == read_le_with_output(out.T, bytes, out.pre)
          IN  /\ SameOutcome(out.ret, decoded)
              /\ index = IF decoded.ok THEN out.pre + decoded.read_bytes ELSE out.pre
    /\ out.op = "read_stream_be" =>
          LET decoded == read_be_with_output(out.T, bytes, out.pre)
          IN  /\ SameOutcome(out.ret, decoded)
              /\ index = IF decoded.ok THEN out.pre + decoded.read_bytes ELSE out.pre

\* a one element list (3 bytes) read from a non-zero index, and the cursor moved by 3
C1_Witness ==
    /\ out.op = "read_stream_le"
    /\ out.T = "ListU16"
    /\ out.ret.ok
    /\ out.pre > 0
    /\ Len(out.ret.data) = 1
    /\ index = out.pre + 3

\* C2: in a run of stream reads that started at i0, after every successful
\* read the index is i0 plus the sum of the consumed byte counts of the
\* successful reads, and the read decoded from where the reads before it ended.
C2_StreamReadsAccumulate ==
    (out.op \in {"read_stream_le", "read_stream_be"} /\ out.ret.ok) =>
        /\ index = i0 + sum
        /\ out.pre = i0 + sum - out.consumed
        /\ out.ret.data =
              IF out.op = "read_stream_le"
              THEN read_le_with_output(out.T, bytes, i0 + sum - out.consumed).data
              ELSE read_be_with_output(out.T, bytes, i0 + sum - out.consumed).data

\* a variable-size list read big-endian after earlier reads of the run consumed bytes
C2_Witness ==
    /\ out.op = "read_stream_be"
    /\ out.T \in Lists
    /\ out.ret.ok
    /\ out.consumed > 1
    /\ sum > out.consumed
    /\ i0 > 0

\* C3: read_array_stream_le / read_array_stream_be return the SIZE elements
\* and advance the index by the bytes all of them consumed when every element
\* decodes; when an element fails they return its error and the index is what
\* it was before the call.
C3_ArrayStreamAllOrNothing ==
    /\ out.op = "read_array_stream_le" =>
          LET elems == ElementsLe(out.T, bytes, out.pre, out.SIZE)
          IN  /\ SameOutcome(out.ret, elems)
              /\ index = IF elems.ok THEN elems.end ELSE out.pre
    /\ out.op = "read_array_stream_be" =>
          LET elems == ElementsBe(out.T, bytes, out.pre, out.SIZE)
          IN  /\ SameOutcome(out.ret, elems)
              /\ index = IF elems.ok THEN elems.end ELSE out.pre

\* the first of two u16 decoded, the second did not fit: the index did not move
C3_Witness ==
    /\ out.op = "read_array_stream_le"
    /\ out.T = "u16"
    /\ out.SIZE = 2
    /\ ~out.ret.ok
    /\ read_le_with_output("u16", bytes, out.pre).ok
    /\ index = out.pre

\* C4: read_byte_stream(size) advances the index by size only when the size
\* bytes were read; when fewer remain it returns InvalidSize and the index is
\* not advanced.
C4_ByteStreamKeepsIndexOnError ==
    out.op = "read_byte_stream" =>
        IF out.pre + out.size <= Len(bytes)
        THEN /\ out.ret.ok
             /\ out.ret.data = Slice(bytes, out.pre, out.pre + out.size)
             /\ index = out.pre + out.size
        ELSE /\ ~out.ret.ok
             /\ out.ret.error = InvalidSize(out.size, out.pre, Len(bytes))
             /\ index = out.pre


----------------------------------------------------------------------------
(* Properties of the offset based reads (specification SpecReader) *)

LeReads == {"read_le", "read_le_with_output"}
BeReads == {"read_be", "read_be_with_output"}
EndianReads == LeReads \cup BeReads

Anchored(error, inner, offset) ==
    CASE inner.kind = "InvalidSize" ->
            /\ error.kind = "InvalidSize"
            /\ error.wanted_size = inner.wanted_size
            /\ error.offset = inner.offset + offset
      [] inner.kind = "InvalidAlignment" ->
            /\ error.kind = "InvalidAlignment"
            /\ error.wanted_size = inner.wanted_size
            /\ error.source_size = inner.source_size
            /\ error.source_offset = inner.source_offset + offset
      [] OTHER -> error = inner

C7_ListErrorAtElementOffset ==
    (out.op \in EndianReads /\ out.T \in Lists /\ Len(bytes) > out.offset /\ ~out.ret.ok) =>
        LET W == size_of(ListElem(out.T))
            present == (Len(bytes) - (out.offset + 1)) \div W
        IN  /\ out.ret.error.kind = "InvalidSize"
            /\ out.ret.error.wanted_size = W
            /\ out.ret.error.offset = out.offset + 1 + W * present

\* C8: Test {first: u8, second: u32} read with read_le at an offset where only
\* 4 bytes are available fails with InvalidSize whose wanted_size is 4, whose
\* data_len is the buffer length and whose offset is the offset the read of
\* the composite started at.
C8_CompositeErrorAtStartOffset ==
    (out.op = "read_le" /\ out.T = "Test" /\ Len(bytes) = out.offset + 4) =>
        /\ ~out.ret.ok
        /\ out.ret.error = InvalidSize(4, out.offset, Len(bytes))

\* C9: get_slice_of_size(offset, size) succeeds exactly when offset + size is
\* at most the length of the buffer, and then returns the size bytes from
\* offset on; otherwise it fails with InvalidSize{size, offset, len}.
C9_SliceOfSize ==
    out.op = "get_slice_of_size" =>
        IF out.offset + out.size <= Len(bytes)
        THEN /\ out.ret.ok
             /\ Len(out.ret.data) = out.size
             /\ \A i \in 1 .. out.size : out.ret.data[i] = bytes[out.offset + i]
        ELSE /\ ~out.ret.ok
             /\ out.ret.error = InvalidSize(out.size, out.offset, Len(bytes))

\* a slice that ends exactly at the end of the buffer
C9_Witness ==
    /\ out.op = "get_slice_of_size"
    /\ out.size > 0
    /\ out.offset > 0
    /\ out.offset + out.size = Len(bytes)
    /\ out.ret.ok
    /\ Len(out.ret.data) = out.size

----------------------------------------------------------------------------
(* Properties of the transmuting reads (specification SpecTransmute) *)

\* C10: get_transmutable<T> / read<T> at offset O check the size before the
\* alignment: InvalidSize{size_of(T), O, len} when O + size_of(T) exceeds the
\* buffer, even at a misaligned O; otherwise InvalidAlignment{size_of(T),
\* size_of(T), O} when the address of the bytes at O is not a multiple of T's
\* alignment; otherwise the value stored in the bytes at O.
C10_SizeBeforeAlignment ==
    out.op \in {"get_transmutable", "read"} =>
        LET size == size_of(out.T)
        IN  IF out.offset + size > Len(bytes)
            THEN /\ ~out.ret.ok
                 /\ out.ret.error = InvalidSize(size, out.offset, Len(bytes))
            ELSE IF (base + out.offset) % align_of(out.T) # 0
            THEN /\ ~out.ret.ok
                 /\ out.ret.error = InvalidAlignment(size, size, out.offset)
            ELSE /\ out.ret.ok
                 /\ out.ret.data = Slice(bytes, out.offset, out.offset + size)

\* a u32 asked for at a misaligned offset too close to the end: the size error wins
C10_Witness ==
    /\ out.op = "read"
    /\ out.T = "u32"
    /\ (base + out.offset) % 4 # 0
    /\ out.offset < Len(bytes)
    /\ out.offset + 4 > Len(bytes)
    /\ ~out.ret.ok
    /\ out.ret.error.kind = "InvalidSize"


----------------------------------------------------------------------------
(* Reader: the array reads *)

\* a read_array_le that decodes every element at the offset of the first
RECURSIVE read_array_le_same_offset_elems(_, _, _, _, _)
read_array_le_same_offset_elems(T, data, offset, remaining, result) ==
    IF remaining = 0 THEN Ok(result)
    ELSE LET read_output == read_le_with_output(T, data, offset)
         IN  IF ~read_output.ok THEN Err(read_output.error)
             ELSE read_array_le_same_offset_elems(T, data, offset, remaining - 1,
                      Append(result, read_output.data))

read_array_le_same_offset(SIZE, T, data, offset) ==
    read_array_le_same_offset_elems(T, data, offset, SIZE, <<>>)

\* the loop `for elem in result.iter_mut()` of read_array_le, `remaining`
\* elements from its end; offset is the loop's running offset
RECURSIVE read_array_le_elems(_, _, _, _, _)
read_array_le_elems(T, data, offset, remaining, result) ==
    IF remaining = 0 THEN Ok(result)
    ELSE LET read_output == read_le_with_output(T, data, offset)
         IN  IF ~read_output.ok THEN Err(read_output.error)
             ELSE read_array_le_elems(T, data, offset + read_output.read_bytes,
                      remaining - 1, Append(result, read_output.data))

read_array_le(SIZE, T, data, offset) == read_array_le_elems(T, data, offset, SIZE, <<>>)

RECURSIVE read_array_be_elems(_, _, _, _, _)
read_array_be_elems(T, data, offset, remaining, result) ==
    IF remaining = 0 THEN Ok(result)
    ELSE LET read_output == read_be_with_output(T, data, offset)
         IN  IF ~read_output.ok THEN Err(read_output.error)
             ELSE read_array_be_elems(T, data, offset + read_output.read_bytes,
                      remaining - 1, Append(result, read_output.data))

read_array_be(SIZE, T, data, offset) == read_array_be_elems(T, data, offset, SIZE, <<>>)

----------------------------------------------------------------------------
(* Array reads at an offset: a MockReader over the buffer, one             *)
(* read_array_le / read_array_be call at a time                            *)

ReadArrayLe(SIZE, T, offset) ==
    /\ Idle
    /\ out' = [op |-> "read_array_le", T |-> T, SIZE |-> SIZE, offset |-> offset,
               ret |-> read_array_le(SIZE, T, bytes, offset)]
    /\ UNCHANGED <<bytes, base, index, i0, sum>>

ReadArrayBe(SIZE, T, offset) ==
    /\ Idle
    /\ out' = [op |-> "read_array_be", T |-> T, SIZE |-> SIZE, offset |-> offset,
               ret |-> read_array_be(SIZE, T, bytes, offset)]
    /\ UNCHANGED <<bytes, base, index, i0, sum>>

NextArray ==
    \/ \E SIZE \in 0 .. MaxSize, T \in ArrayTypes, offset \in Offsets :
          ReadArrayLe(SIZE, T, offset)
    \/ \E SIZE \in 0 .. MaxSize, T \in ArrayTypes, offset \in Offsets :
          ReadArrayBe(SIZE, T, offset)
    \/ Drop

SpecArray == Init /\ [][NextArray]_vars

\* the offset at which element number k (from 0) of an array of T read at
\* offset starts, when the k elements before it decode
ElementOffsetLe(T, data, offset, k) == ElementsLe(T, data, offset, k).end
ElementOffsetBe(T, data, offset, k) == ElementsBe(T, data, offset, k).end

\* C11: read_array_le / read_array_be decode element i at offset plus the
\* bytes the elements 0 .. i-1 consumed: when all SIZE elements decode, element
\* i is what read_le / read_be returns at that position; otherwise the call
\* returns the error of the first element that fails, as that element's read
\* at its position reports it (for a W-byte primitive InvalidSize{W, position,
\* len}), and no array.
C11_ArrayAtOffset ==
    /\ out.op = "read_array_le" =>
          IF out.ret.ok
          THEN /\ Len(out.ret.data) = out.SIZE
               /\ \A i \in 1 .. out.SIZE :
                     /\ ElementsLe(out.T, bytes, out.offset, i - 1).ok
                     /\ read_le(out.T, bytes, ElementOffsetLe(out.T, bytes, out.offset, i - 1))
                            = Ok(out.ret.data[i])
          ELSE /\ DOMAIN out.ret = {"ok", "error"}
               /\ \E k \in 0 .. (out.SIZE - 1) :
                     /\ ElementsLe(out.T, bytes, out.offset, k).ok
                     /\ read_le(out.T, bytes, ElementOffsetLe(out.T, bytes, out.offset, k))
                            = Err(out.ret.error)
               /\ out.T \in Primitives =>
                     LET W == size_of(out.T)
                         fit == IF Len(bytes) < out.offset THEN 0
                                ELSE (Len(bytes) - out.offset) \div W
                     IN  out.ret.error = InvalidSize(W, out.offset + W * fit, Len(bytes))
    /\ out.op = "read_array_be" =>
          IF out.ret.ok
          THEN /\ Len(out.ret.data) = out.SIZE
               /\ \A i \in 1 .. out.SIZE :
                     /\ ElementsBe(out.T, bytes, out.offset, i - 1).ok
                     /\ read_be(out.T, bytes, ElementOffsetBe(out.T, bytes, out.offset, i - 1))
                            = Ok(out.ret.data[i])
          ELSE /\ DOMAIN out.ret = {"ok", "error"}
               /\ \E k \in 0 .. (out.SIZE - 1) :
                     /\ ElementsBe(out.T, bytes, out.offset, k).ok
                     /\ read_be(out.T, bytes, ElementOffsetBe(out.T, bytes, out.offset, k))
                            = Err(out.ret.error)
               /\ out.T \in Primitives =>
                     LET W == size_of(out.T)
                         fit == IF Len(bytes) < out.offset THEN 0
                                ELSE (Len(bytes) - out.offset) \div W
                     IN  out.ret.error = InvalidSize(W, out.offset + W * fit, Len(bytes))

\* two lists read as an array at offset 1: the first takes 3 bytes, the second
\* starts at offset 4 and its element does not fit
C11_Witness ==
    /\ out.op = "read_array_le"
    /\ out.T = "ListU16"
    /\ out.SIZE = 2
    /\ out.offset = 1
    /\ read_le_with_output("ListU16", bytes, 1).ok
    /\ read_le_with_output("ListU16", bytes, 1).read_bytes = 3
    /\ ~out.ret.ok
    /\ out.ret.error = read_le("ListU16", bytes, 4).error


----------------------------------------------------------------------------
(* Reader: the default_ variants *)

\* T::default(): 0 for the primitives, the fields' defaults for a struct (as
\* #[derive(Default)] gives them, also for the failing types, were they to
\* derive it), the empty list for ListContainer
RECURSIVE Default(_)
Default(T) ==
    CASE T \in Primitives        -> 0
      [] T \in Derived           -> [i \in 1 .. Len(DerivedFields(T)) |-> Default(DerivedFields(T)[i])]
      [] T \in Lists             -> <<>>
      [] T = "OffsetErrorTest"   -> <<0>>
      [] OTHER                   -> <<>>

\* the default of a transmuted T: a value is identified with its bytes
DefaultTransmuted(T) == [i \in 1 .. size_of(T) |-> 0]

unwrap_or_default(result, T) == IF result.ok THEN result.data ELSE Default(T)

\* core::array::from_fn(|_| T::default())
default_array(SIZE, T) == [i \in 1 .. SIZE |-> Default(T)]

default_read(T, data, data_addr, offset) ==
    LET result == read(T, data, data_addr, offset)
    IN  IF result.ok THEN result.data ELSE DefaultTransmuted(T)

default_read_le(T, data, offset) == unwrap_or_default(read_le(T, data, offset), T)

default_read_be(T, data, offset) == unwrap_or_default(read_be(T, data, offset), T)

\* a default_read_array_le that keeps the elements decoded before the failure
default_read_array_le_keeps_decoded(SIZE, T, data, offset) ==
    [i \in 1 .. SIZE |->
        IF ElementsLe(T, data, offset, i).ok
        THEN ElementsLe(T, data, offset, i).data[i]
        ELSE Default(T)]

default_read_array_le(SIZE, T, data, offset) ==
    LET result == read_array_le(SIZE, T, data, offset)
    IN  IF result.ok THEN result.data ELSE default_array(SIZE, T)

default_read_array_be(SIZE, T, data, offset) ==
    LET result == read_array_be(SIZE, T, data, offset)
    IN  IF result.ok THEN result.data ELSE default_array(SIZE, T)

----------------------------------------------------------------------------
(* The default_ reads: a MockReader over the buffer at any address, one    *)
(* default_ call at a time; ret is the value the call returns              *)

DefaultTypes == {"u16", "u32", "Test", "ListU16", "CustomErrorTest", "AlignErrorTest"}

DefaultArrayTypes == {"u16", "ListU16", "OffsetErrorTest"}

DefaultRead(T, offset) ==
    /\ Idle
    /\ out' = [op |-> "default_read", T |-> T, offset |-> offset,
               ret |-> default_read(T, bytes, base, offset)]
    /\ UNCHANGED <<bytes, base, index, i0, sum>>

DefaultReadLe(T, offset) ==
    /\ Idle
    /\ out' = [op |-> "default_read_le", T |-> T, offset |-> offset,
               ret |-> default_read_le(T, bytes, offset)]
    /\ UNCHANGED <<bytes, base, index, i0, sum>>

DefaultReadBe(T, offset) ==
    /\ Idle
    /\ out' = [op |-> "default_read_be", T |-> T, offset |-> offset,
               ret |-> default_read_be(T, bytes, offset)]
    /\ UNCHANGED <<bytes, base, index, i0, sum>>

DefaultReadArrayLe(SIZE, T, offset) ==
    /\ Idle
    /\ out' = [op |-> "default_read_array_le", T |-> T, SIZE |-> SIZE,
               offset |-> offset, ret |-> default_read_array_le(SIZE, T, bytes, offset)]
    /\ UNCHANGED <<bytes, base, index, i0, sum>>

DefaultReadArrayBe(SIZE, T, offset) ==
    /\ Idle
    /\ out' = [op |-> "default_read_array_be", T |-> T, SIZE |-> SIZE,
               offset |-> offset, ret |-> default_read_array_be(SIZE, T, bytes, offset)]
    /\ UNCHANGED <<bytes, base, index, i0, sum>>

NextDefault ==
    \/ \E T \in Primitives, offset \in Offsets : DefaultRead(T, offset)
    \/ \E T \in DefaultTypes, offset \in Offsets : DefaultReadLe(T, offset)
    \/ \E T \in DefaultTypes, offset \in Offsets : DefaultReadBe(T, offset)
    \/ \E SIZE \in 0 .. MaxSize, T \in DefaultArrayTypes, offset \in Offsets :
          DefaultReadArrayLe(SIZE, T, offset)
    \/ \E SIZE \in 0 .. MaxSize, T \in DefaultArrayTypes, offset \in Offsets :
          DefaultReadArrayBe(SIZE, T, offset)
    \/ Drop

SpecDefault == InitTransmute /\ [][NextDefault]_vars

\* what a default_ call must return, given what its counterpart returns
ValueOrDefault(counterpart, default) ==
    IF counterpart.ok THEN counterpart.data ELSE default

\* C12: default_read, default_read_le, default_read_be, default_read_array_le
\* and default_read_array_be return the value their counterpart returns when
\* it succeeds, and the default when it fails with any error: T::default(),
\* or SIZE times T::default() with none of the elements decoded before the
\* failure; what they return is always a value, never an error.
C12_DefaultReads ==
    /\ out.op = "default_read" =>
          out.ret = ValueOrDefault(read(out.T, bytes, base, out.offset),
                                   [i \in 1 .. size_of(out.T) |-> 0])
    /\ out.op = "default_read_le" =>
          out.ret = ValueOrDefault(read_le(out.T, bytes, out.offset), Default(out.T))
    /\ out.op = "default_read_be" =>
          out.ret = ValueOrDefault(read_be(out.T, bytes, out.offset), Default(out.T))
    /\ out.op = "default_read_array_le" =>
          /\ out.ret = ValueOrDefault(read_array_le(out.SIZE, out.T, bytes, out.offset),
                                      [i \in 1 .. out.SIZE |-> Default(out.T)])
          /\ Len(out.ret) = out.SIZE
    /\ out.op = "default_read_array_be" =>
          /\ out.ret = ValueOrDefault(read_array_be(out.SIZE, out.T, bytes, out.offset),
                                      [i \in 1 .. out.SIZE |-> Default(out.T)])
          /\ Len(out.ret) = out.SIZE
    /\ (out.op = "default_read" /\ (Len(bytes) < out.offset + size_of(out.T)
                                      \/ (base + out.offset) % align_of(out.T) # 0)) =>
          out.ret = [i \in 1 .. size_of(out.T) |-> 0]
    /\ (out.op \in {"default_read_le", "default_read_be"} /\ out.T \in Primitives
            /\ Len(bytes) < out.offset + size_of(out.T)) =>
          out.ret = 0
    /\ (out.op \in {"default_read_le", "default_read_be"} /\ out.T \in Failing) =>
          out.ret = <<>>
    /\ (out.op \in {"default_read_array_le", "default_read_array_be"}
            /\ out.T = "u16" /\ Len(bytes) < out.offset + 2 * out.SIZE) =>
          out.ret = [i \in 1 .. out.SIZE |-> 0]

\* two u16 asked for where one fits: the first decodes to a non-zero value,
\* and the array returned is two zeros
C12_Witness ==
    /\ out.op = "default_read_array_le"
    /\ out.T = "u16"
    /\ out.SIZE = 2
    /\ read_le("u16", bytes, out.offset).ok
    /\ read_le("u16", bytes, out.offset).data # 0
    /\ ~read_array_le(2, "u16", bytes, out.offset).ok
    /\ out.ret = <<0, 0>>


----------------------------------------------------------------------------
(* EndianWrite: the values written, their sizes and their encodings.  A    *)
(* value of a primitive is a number, of a struct the sequence of its       *)
(* fields' values, of an array or a ListContainer the sequence of its      *)
(* elements.  Every write returns [ret, data]: the Result, and the         *)
(* destination as the call leaves it.                                      *)

\* the types that implement EndianWrite
WriteTypes == Primitives \cup {"Test"} \cup Attributed \cup WriteOnly \cup Lists

\* the values the writes are tried with
RECURSIVE Values(_)
Values(T) ==
    CASE T = "u8"  -> {0, 170}
      [] T = "u16" -> {0, from_be_bytes(<<1, 2>>)}
      [] T = "u32" -> {0, from_be_bytes(<<1, 2, 3, 4>>)}
      [] T = "WithArray" ->
            {<<first, <<x, y>>>> : first \in Values("u8"), x \in Values("u16"),
                                   y \in Values("u16")}
      [] T = "Empty" -> {<<>>}
      [] T \in {"Test", "Padded", "Backtracked"} ->
            {<<first, second>> : first \in Values(DerivedFields(T)[1]),
                                 second \in Values(DerivedFields(T)[2])}
      [] T = "Triple" ->
            {<<first, second, third>> : first \in Values("u8"), second \in Values("u32"),
                                        third \in {187}}
      [] T \in Lists ->
            UNION {[1 .. n -> Values(ListElem(T))] : n \in 0 .. MaxSize}

\* the W bytes of v, least significant first / most significant first
to_le_bytes(v, W) == [i \in 1 .. W |-> (v \div 256 ^ (i - 1)) % 256]

to_be_bytes(v, W) == [i \in 1 .. W |-> (v \div 256 ^ (W - i)) % 256]

\* data with the bytes from offset on replaced by src
Splice(data, offset, src) ==
    [i \in 1 .. Len(data) |->
        IF offset < i /\ i <= offset + Len(src) THEN src[i - offset] ELSE data[i]]

RECURSIVE get_size(_, _)

\* `for val in &self.field { size += get_size(val) }`, and the same loop of
\* ListContainer::get_size
RECURSIVE items_get_size(_, _)
items_get_size(E, items) ==
    IF items = <<>> THEN 0
    ELSE get_size(E, Head(items)) + items_get_size(E, Tail(items))

\* a derived get_size that leaves the pad_before bytes out
RECURSIVE derived_get_size_no_pad(_, _)
derived_get_size_no_pad(fields, value) ==
    IF fields = <<>> THEN 0
    ELSE LET field == Head(fields)
             field_size == IF field.array THEN items_get_size(field.ty, Head(value))
                                          ELSE get_size(field.ty, Head(value))
         IN  field_size + derived_get_size_no_pad(Tail(fields), Tail(value))

\* #[derive(EndianWrite)] get_size: per field, size += pad_before and then
\* size += the size of the field, or of each element of an array field
RECURSIVE derived_get_size(_, _)
derived_get_size(fields, value) ==
    IF fields = <<>> THEN 0
    ELSE LET field == Head(fields)
             field_size == IF field.array THEN items_get_size(field.ty, Head(value))
                                          ELSE get_size(field.ty, Head(value))
         IN  field.pad_before + field_size + derived_get_size(Tail(fields), Tail(value))

\* a ListContainer::get_size that forgets the byte of the count
ListContainer_get_size_no_count(T, list) == items_get_size(ListElem(T), list)

ListContainer_get_size(T, list) == items_get_size(ListElem(T), list) + 1

get_size(T, v) ==
    CASE T \in Primitives            -> size_of(T)
      [] T \in Derived \cup Attributed \cup WriteOnly -> derived_get_size(DerivedLayout(T), v)
      [] T \in Lists                 -> ListContainer_get_size(T, v)

\* the codecs write through the Writer and the StreamWriter, which call the
\* codecs of the fields: all of them are mutually recursive
RECURSIVE try_write_le(_, _, _), try_write_be(_, _, _)
RECURSIVE write_le(_, _, _, _), write_be(_, _, _, _)
RECURSIVE write_stream_le(_, _, _), write_stream_be(_, _, _)
RECURSIVE write_array_stream_le(_, _, _), write_array_stream_be(_, _, _)
RECURSIVE derived_try_write_le(_, _, _), derived_try_write_be(_, _, _)
RECURSIVE ListContainer_try_write_le(_, _, _), ListContainer_try_write_be(_, _, _)

\* the primitives: the size check, then the bytes in the order asked for
primitive_try_write_le(T, v, dst) ==
    LET byte_count == size_of(T)
    IN  IF byte_count > Len(dst)
        THEN [ret |-> Err(InvalidSize(byte_count, 0, Len(dst))), data |-> dst]
        ELSE [ret |-> Ok(byte_count), data |-> Splice(dst, 0, to_le_bytes(v, byte_count))]

primitive_try_write_be(T, v, dst) ==
    LET byte_count == size_of(T)
    IN  IF byte_count > Len(dst)
        THEN [ret |-> Err(InvalidSize(byte_count, 0, Len(dst))), data |-> dst]
        ELSE [ret |-> Ok(byte_count), data |-> Splice(dst, 0, to_be_bytes(v, byte_count))]

----------------------------------------------------------------------------
(* Writer and StreamWriter *)

\* Writer::write_le: the size of the value first, InvalidSize when the bytes
\* from offset on are fewer, otherwise the codec writes into them
write_le(T, v, data, offset) ==
    LET size == get_size(T, v)
    IN  IF Len(data) < offset + size
        THEN [ret |-> Err(InvalidSize(size, offset, Len(data))), data |-> data]
        ELSE LET r == try_write_le(T, v, Slice(data, offset, offset + size))
             IN  [ret |-> add_error_context(r.ret, offset, Len(data)),
                  data |-> Splice(data, offset, r.data)]

write_be(T, v, data, offset) ==
    LET size == get_size(T, v)
    IN  IF Len(data) < offset + size
        THEN [ret |-> Err(InvalidSize(size, offset, Len(data))), data |-> data]
        ELSE LET r == try_write_be(T, v, Slice(data, offset, offset + size))
             IN  [ret |-> add_error_context(r.ret, offset, Len(data)),
                  data |-> Splice(data, offset, r.data)]

\* StreamWriter::write_stream_le: write at the index, advance by the bytes
\* written when the write succeeded; returns [ret, stream]
write_stream_le(T, v, stream) ==
    LET r == write_le(T, v, stream.bytes, get_index(stream))
        written == [stream EXCEPT !.bytes = r.data]
    IN  IF ~r.ret.ok THEN [ret |-> r.ret, stream |-> written]
        ELSE [ret |-> r.ret, stream |-> increment_by(written, r.ret.data)]

write_stream_be(T, v, stream) ==
    LET r == write_be(T, v, stream.bytes, get_index(stream))
        written == [stream EXCEPT !.bytes = r.data]
    IN  IF ~r.ret.ok THEN [ret |-> r.ret, stream |-> written]
        ELSE [ret |-> r.ret, stream |-> increment_by(written, r.ret.data)]

\* StreamWriter::write_array_stream_le: the elements one after the other from
\* the index on, the index advanced once all of them are written
RECURSIVE write_array_stream_le_elems(_, _, _, _, _)
write_array_stream_le_elems(T, stream, idx, values, written_bytes) ==
    IF values = <<>>
    THEN [ret |-> Ok(written_bytes), stream |-> increment_by(stream, written_bytes)]
    ELSE LET r == write_le(T, Head(values), stream.bytes, idx + written_bytes)
             written == [stream EXCEPT !.bytes = r.data]
         IN  IF ~r.ret.ok THEN [ret |-> r.ret, stream |-> written]
             ELSE write_array_stream_le_elems(T, written, idx, Tail(values),
                                              written_bytes + r.ret.data)

write_array_stream_le(T, values, stream) ==
    write_array_stream_le_elems(T, stream, get_index(stream), values, 0)

RECURSIVE write_array_stream_be_elems(_, _, _, _, _)
write_array_stream_be_elems(T, stream, idx, values, written_bytes) ==
    IF values = <<>>
    THEN [ret |-> Ok(written_bytes), stream |-> increment_by(stream, written_bytes)]
    ELSE LET r == write_be(T, Head(values), stream.bytes, idx + written_bytes)
             written == [stream EXCEPT !.bytes = r.data]
         IN  IF ~r.ret.ok THEN [ret |-> r.ret, stream |-> written]
             ELSE write_array_stream_be_elems(T, written, idx, Tail(values),
                                              written_bytes + r.ret.data)

write_array_stream_be(T, values, stream) ==
    write_array_stream_be_elems(T, stream, get_index(stream), values, 0)

----------------------------------------------------------------------------
(* EndianWrite implementations *)

\* #[derive(EndianWrite)] try_write_le: a stream over dst; per field in
\* declaration order increment_by(pad_before), then the stream write of the
\* field (write_array_stream_le for an array of non-byte elements) under ?;
\* the bytes written are the final index
\* a derived try_write_le that does not move the cursor over the pad_before bytes
RECURSIVE derived_write_fields_le_no_pad(_, _, _)
derived_write_fields_le_no_pad(fields, value, stream) ==
    IF fields = <<>> THEN [ret |-> Ok(get_index(stream)), data |-> stream.bytes]
    ELSE LET field == Head(fields)
             r == IF field.array THEN write_array_stream_le(field.ty, Head(value), stream)
                                 ELSE write_stream_le(field.ty, Head(value), stream)
         IN  IF ~r.ret.ok THEN [ret |-> r.ret, data |-> r.stream.bytes]
             ELSE derived_write_fields_le_no_pad(Tail(fields), Tail(value), r.stream)

\* a derived try_write_le that fills the pad_before bytes with zeros
RECURSIVE derived_write_fields_le_zero_pad(_, _, _)
derived_write_fields_le_zero_pad(fields, value, stream) ==
    IF fields = <<>> THEN [ret |-> Ok(get_index(stream)), data |-> stream.bytes]
    ELSE LET field == Head(fields)
             zeroed == [stream EXCEPT !.bytes =
                           Splice(stream.bytes, get_index(stream),
                                  [i \in 1 .. field.pad_before |-> 0])]
             padded == increment_by(zeroed, field.pad_before)
             r == IF field.array THEN write_array_stream_le(field.ty, Head(value), padded)
                                 ELSE write_stream_le(field.ty, Head(value), padded)
         IN  IF ~r.ret.ok THEN [ret |-> r.ret, data |-> r.stream.bytes]
             ELSE derived_write_fields_le_zero_pad(Tail(fields), Tail(value), r.stream)

\* a derived try_write_le that goes on with the next field after one failed,
\* and returns the first error
RECURSIVE derived_write_fields_le_goes_on(_, _, _)
derived_write_fields_le_goes_on(fields, value, stream) ==
    IF fields = <<>> THEN [ret |-> Ok(get_index(stream)), data |-> stream.bytes]
    ELSE LET field == Head(fields)
             padded == increment_by(stream, field.pad_before)
             r == IF field.array THEN write_array_stream_le(field.ty, Head(value), padded)
                                 ELSE write_stream_le(field.ty, Head(value), padded)
             rest == derived_write_fields_le_goes_on(Tail(fields), Tail(value), r.stream)
         IN  IF ~r.ret.ok THEN [ret |-> r.ret, data |-> rest.data]
             ELSE rest

RECURSIVE derived_write_fields_le(_, _, _)
derived_write_fields_le(fields, value, stream) ==
    IF fields = <<>> THEN [ret |-> Ok(get_index(stream)), data |-> stream.bytes]
    ELSE LET field == Head(fields)
             padded == increment_by(stream, field.pad_before)
             r == IF field.array THEN write_array_stream_le(field.ty, Head(value), padded)
                                 ELSE write_stream_le(field.ty, Head(value), padded)
         IN  IF ~r.ret.ok THEN [ret |-> r.ret, data |-> r.stream.bytes]
             ELSE derived_write_fields_le(Tail(fields), Tail(value), r.stream)

derived_try_write_le(T, v, dst) ==
    derived_write_fields_le(DerivedLayout(T), v, StreamContainer_new(dst))

RECURSIVE derived_write_fields_be(_, _, _)
derived_write_fields_be(fields, value, stream) ==
    IF fields = <<>> THEN [ret |-> Ok(get_index(stream)), data |-> stream.bytes]
    ELSE LET field == Head(fields)
             padded == increment_by(stream, field.pad_before)
             r == IF field.array THEN write_array_stream_be(field.ty, Head(value), padded)
                                 ELSE write_stream_be(field.ty, Head(value), padded)
         IN  IF ~r.ret.ok THEN [ret |-> r.ret, data |-> r.stream.bytes]
             ELSE derived_write_fields_be(Tail(fields), Tail(value), r.stream)

derived_try_write_be(T, v, dst) ==
    derived_write_fields_be(DerivedLayout(T), v, StreamContainer_new(dst))

\* ListContainer<T>::try_write_le: the loop `for item in self.0.iter()`
RECURSIVE ListContainer_write_items_le(_, _, _)
ListContainer_write_items_le(E, items, stream) ==
    IF items = <<>> THEN [ret |-> Ok(get_index(stream)), data |-> stream.bytes]
    ELSE LET r == write_stream_le(E, Head(items), stream)
         IN  IF ~r.ret.ok THEN [ret |-> r.ret, data |-> r.stream.bytes]
             ELSE ListContainer_write_items_le(E, Tail(items), r.stream)

ListContainer_try_write_le(T, list, dst) ==
    LET size == ListContainer_get_size(T, list)
    IN  IF Len(dst) < size
        THEN [ret |-> Err(InvalidSize(size, 0, Len(dst))), data |-> dst]
        ELSE LET count == Len(list)
                 c == write_stream_le("u8", count, StreamContainer_new(dst))
             IN  IF ~c.ret.ok THEN [ret |-> c.ret, data |-> c.stream.bytes]
                 ELSE ListContainer_write_items_le(ListElem(T), list, c.stream)

RECURSIVE ListContainer_write_items_be(_, _, _)
ListContainer_write_items_be(E, items, stream) ==
    IF items = <<>> THEN [ret |-> Ok(get_index(stream)), data |-> stream.bytes]
    ELSE LET r == write_stream_be(E, Head(items), stream)
         IN  IF ~r.ret.ok THEN [ret |-> r.ret, data |-> r.stream.bytes]
             ELSE ListContainer_write_items_be(E, Tail(items), r.stream)

ListContainer_try_write_be(T, list, dst) ==
    LET size == ListContainer_get_size(T, list)
    IN  IF Len(dst) < size
        THEN [ret |-> Err(InvalidSize(size, 0, Len(dst))), data |-> dst]
        ELSE LET count == Len(list)
                 c == write_stream_be("u8", count, StreamContainer_new(dst))
             IN  IF ~c.ret.ok THEN [ret |-> c.ret, data |-> c.stream.bytes]
                 ELSE ListContainer_write_items_be(ListElem(T), list, c.stream)

try_write_le(T, v, dst) ==
    CASE T \in Primitives            -> primitive_try_write_le(T, v, dst)
      [] T \in Derived \cup Attributed \cup WriteOnly -> derived_try_write_le(T, v, dst)
      [] T \in Lists                 -> ListContainer_try_write_le(T, v, dst)

try_write_be(T, v, dst) ==
    CASE T \in Primitives            -> primitive_try_write_be(T, v, dst)
      [] T \in Derived \cup Attributed \cup WriteOnly -> derived_try_write_be(T, v, dst)
      [] T \in Lists                 -> ListContainer_try_write_be(T, v, dst)

----------------------------------------------------------------------------
(* Writes: a fixed-size mutable buffer; one value is written into it, by   *)
(* the Writer at an offset or by the value's own try_write over the whole  *)
(* buffer, and after a write that succeeded the value is read back from    *)
(* where it was written.  pre is the buffer before the write.              *)

\* the destinations: 0 .. MaxLen bytes, all of them holding the same value
Destinations == {[i \in 1 .. n |-> fill] : n \in 0 .. MaxLen, fill \in ByteVals}

InitWrite ==
    /\ bytes \in Destinations
    /\ base = 0
    /\ index = 0
    /\ out = NoCall
    /\ i0 = 0
    /\ sum = 0

WriteLe(T, v, offset) ==
    /\ Idle
    /\ LET r == write_le(T, v, bytes, offset)
       IN  /\ bytes' = r.data
           /\ out' = [op |-> "write_le", T |-> T, value |-> v, offset |-> offset,
                      pre |-> bytes, ret |-> r.ret]
    /\ UNCHANGED <<base, index, i0, sum>>

WriteBe(T, v, offset) ==
    /\ Idle
    /\ LET r == write_be(T, v, bytes, offset)
       IN  /\ bytes' = r.data
           /\ out' = [op |-> "write_be", T |-> T, value |-> v, offset |-> offset,
                      pre |-> bytes, ret |-> r.ret]
    /\ UNCHANGED <<base, index, i0, sum>>

TryWriteLe(T, v) ==
    /\ Idle
    /\ LET r == try_write_le(T, v, bytes)
       IN  /\ bytes' = r.data
           /\ out' = [op |-> "try_write_le", T |-> T, value |-> v, offset |-> 0,
                      pre |-> bytes, ret |-> r.ret]
    /\ UNCHANGED <<base, index, i0, sum>>

TryWriteBe(T, v) ==
    /\ Idle
    /\ LET r == try_write_be(T, v, bytes)
       IN  /\ bytes' = r.data
           /\ out' = [op |-> "try_write_be", T |-> T, value |-> v, offset |-> 0,
                      pre |-> bytes, ret |-> r.ret]
    /\ UNCHANGED <<base, index, i0, sum>>

ReadBackLe ==
    /\ out.op = "write_le"
    /\ out.T \notin WriteOnly
    /\ out.ret.ok
    /\ out' = [op |-> "read_back_le", T |-> out.T, value |-> out.value,
               offset |-> out.offset, written |-> out.ret.data,
               ret |-> read_le_with_output(out.T, bytes, out.offset)]
    /\ UNCHANGED <<bytes, base, index, i0, sum>>

ReadBackBe ==
    /\ out.op = "write_be"
    /\ out.T \notin WriteOnly
    /\ out.ret.ok
    /\ out' = [op |-> "read_back_be", T |-> out.T, value |-> out.value,
               offset |-> out.offset, written |-> out.ret.data,
               ret |-> read_be_with_output(out.T, bytes, out.offset)]
    /\ UNCHANGED <<bytes, base, index, i0, sum>>

NextWrite ==
    \/ \E T \in WriteTypes : \E v \in Values(T), offset \in Offsets : WriteLe(T, v, offset)
    \/ \E T \in WriteTypes : \E v \in Values(T), offset \in Offsets : WriteBe(T, v, offset)
    \/ \E T \in WriteTypes : \E v \in Values(T) : TryWriteLe(T, v)
    \/ \E T \in WriteTypes : \E v \in Values(T) : TryWriteBe(T, v)
    \/ ReadBackLe
    \/ ReadBackBe

SpecWrite == InitWrite /\ [][NextWrite]_vars

Writes == {"write_le", "write_be"}
TryWrites == {"try_write_le", "try_write_be"}
ReadBacks == {"read_back_le", "read_back_be"}

\* C13: a value of a type that implements EndianRead and EndianWrite (the
\* primitives and the derived structs), written with write_le and read with
\* read_le at the same offset, or written with write_be and read with read_be,
\* comes back equal, and the read consumes exactly the bytes the write
\* reported as written.
C13_RoundTrip ==
    (out.op \in ReadBacks /\ out.T \notin Lists) =>
        /\ out.ret.ok
        /\ out.ret.data = out.value
        /\ out.ret.read_bytes = out.written

\* a padded struct with non-zero fields written little-endian into a buffer
\* of ones and read back
C13_Witness ==
    /\ out.op = "read_back_le"
    /\ out.T = "Padded"
    /\ out.offset = 0
    /\ bytes[2] = 1
    /\ out.value[1] # 0
    /\ out.value[2] # 0
    /\ out.ret.ok
    /\ out.ret.data = out.value
    /\ out.written = 5


----------------------------------------------------------------------------
(* The values decoded (specification SpecReader) *)

\* the bytes data[O .. O+W) weighted least significant first
LeValue(data, O, W) ==
    IF W = 2 THEN data[O + 1] + data[O + 2] * 256
    ELSE data[O + 1] + data[O + 2] * 256 + data[O + 3] * 256 * 256
             + data[O + 4] * 256 * 256 * 256

\* the bytes data[O .. O+W) weighted most significant first
BeValue(data, O, W) ==
    IF W = 2 THEN data[O + 1] * 256 + data[O + 2]
    ELSE data[O + 1] * 256 * 256 * 256 + data[O + 2] * 256 * 256
             + data[O + 3] * 256 + data[O + 4]

\* C14: for u16 and u32 (W = 2, 4) at an offset O with O + W <= len, read_le
\* returns the sum of byte[O+i] * 256^i and read_be the sum of byte[O+i] *
\* 256^(W-1-i), and both report W bytes consumed; Test {first: u8, second:
\* u32} decodes first from the first byte and second from the four bytes
\* after it in the byte order asked for, 5 bytes in all.
C14_ByteOrderValues ==
    out.op \in EndianReads =>
        LET O == out.offset
            le == out.op \in LeReads
        IN  /\ (out.T \in {"u16", "u32"} /\ O + size_of(out.T) <= Len(bytes)) =>
                  /\ out.ret.ok
                  /\ out.ret.data = IF le THEN LeValue(bytes, O, size_of(out.T))
                                          ELSE BeValue(bytes, O, size_of(out.T))
                  /\ "read_bytes" \in DOMAIN out.ret => out.ret.read_bytes = size_of(out.T)
            /\ (out.T = "Test" /\ O + 5 <= Len(bytes)) =>
                  /\ out.ret.ok
                  /\ out.ret.data[1] = bytes[O + 1]
                  /\ out.ret.data[2] = IF le THEN LeValue(bytes, O + 1, 4)
                                             ELSE BeValue(bytes, O + 1, 4)
                  /\ "read_bytes" \in DOMAIN out.ret => out.ret.read_bytes = 5

\* a u32 read big-endian at offset 1 from bytes whose two byte orders differ
C14_Witness ==
    /\ out.op = "read_be_with_output"
    /\ out.T = "u32"
    /\ out.offset = 1
    /\ Len(bytes) = 5
    /\ bytes[2] = 1
    /\ bytes[5] = 0
    /\ out.ret.ok
    /\ out.ret.data >= 256 * 256 * 256
    /\ out.ret.read_bytes = 4


----------------------------------------------------------------------------
(* Properties of the writes (specification SpecWrite) *)

\* C15: a try_write_le / try_write_be of a derived struct that succeeds,
\* called directly or under write_le / write_be, returns get_size() of the
\* value, and get_size() is the sum over the fields of pad_before plus the
\* size of the field, an array of non-byte elements counting the sizes of
\* its elements: 1 + 4 for Test, 1 + (2 + 2) for Padded (pad_before = 2 on
\* its u16), 1 + (2 + 2) for WithArray (a [u16; 2]) and 0 for Empty.
C15_SizeContract ==
    (out.op \in Writes \cup TryWrites /\ out.T \in {"Test"} \cup Attributed /\ out.ret.ok) =>
        /\ out.ret.data = get_size(out.T, out.value)
        /\ get_size(out.T, out.value) =
              CASE out.T = "Test"      -> 1 + 4
                [] out.T = "Padded"    -> 1 + (2 + 2)
                [] out.T = "WithArray" -> 1 + (2 + 2)
                [] out.T = "Empty"     -> 0

\* the padded struct written by its own try_write_be over a buffer of 5 bytes
C15_Witness ==
    /\ out.op = "try_write_be"
    /\ out.T = "Padded"
    /\ Len(out.pre) = 5
    /\ out.ret.ok
    /\ out.ret.data = 5
    /\ bytes[4] = 1
    /\ bytes[5] = 2

\* C16: encoding a value into a destination that is one byte shorter than
\* its get_size(), with its try_write_le / try_write_be or with write_le /
\* write_be at offset 0, fails with InvalidSize{wanted_size: get_size(),
\* offset: 0, data_len: get_size() - 1}.
C16_OneByteShort ==
    (out.op \in Writes \cup TryWrites /\ out.offset = 0
        /\ Len(out.pre) = get_size(out.T, out.value) - 1) =>
        /\ ~out.ret.ok
        /\ out.ret.error = InvalidSize(get_size(out.T, out.value), 0,
                                       get_size(out.T, out.value) - 1)

\* C17: Test {first: u8, second: u32} written with write_le at offset 0 into
\* a buffer of 4 bytes fails with InvalidSize{wanted_size: 4, offset: 0,
\* data_len: 4}.
C17_ShortCompositeWrite ==
    (out.op = "write_le" /\ out.T = "Test" /\ out.offset = 0 /\ Len(out.pre) = 4) =>
        /\ ~out.ret.ok
        /\ out.ret.error = InvalidSize(4, 0, 4)

\* C18: a ListContainer of N elements of W bytes each encodes to 1 + N * W
\* bytes, the count first, and leaves the bytes around them as they were; its
\* get_size() is 1 + N * W; read back in the byte order it was written in, the
\* same list is decoded and 1 + N * W bytes are reported as consumed.
C18_ListRoundTrip ==
    /\ (out.op \in Writes \cup TryWrites /\ out.T \in Lists /\ out.ret.ok) =>
          LET size == 1 + Len(out.value) * size_of(ListElem(out.T))
          IN  /\ out.ret.data = size
              /\ get_size(out.T, out.value) = size
              /\ bytes[out.offset + 1] = Len(out.value)
              /\ Len(bytes) = Len(out.pre)
              /\ \A i \in 1 .. Len(bytes) :
                    (i <= out.offset \/ i > out.offset + size) => bytes[i] = out.pre[i]
    /\ (out.op \in ReadBacks /\ out.T \in Lists) =>
          /\ out.ret.ok
          /\ out.ret.data = out.value
          /\ out.ret.read_bytes = 1 + Len(out.value) * size_of(ListElem(out.T))
          /\ out.ret.read_bytes = out.written

\* a list of two different u16 written big-endian and read back
C18_Witness ==
    /\ out.op = "read_back_be"
    /\ out.T = "ListU16"
    /\ Len(out.value) = 2
    /\ out.value[1] # out.value[2]
    /\ out.ret.ok
    /\ out.ret.data = out.value
    /\ out.ret.read_bytes = 5


----------------------------------------------------------------------------
(* LeIter / BeIter: the iterator owns the stream; next is one stream read, *)
(* Some(item) when it succeeds and None when it fails                      *)

Some(data) == [some |-> TRUE, data |-> data]

None == [some |-> FALSE]

\* Result::ok
ok(result) == IF result.ok THEN Some(result.data) ELSE None

LeIter_new(stream) == [stream |-> stream]

BeIter_new(stream) == [stream |-> stream]

\* an into_le_iter that iterates from the start of the buffer
into_le_iter_from_start(stream) == LeIter_new(set_index(stream, 0))

into_le_iter(stream) == LeIter_new(stream)

into_be_iter(stream) == BeIter_new(stream)

\* Iterator::next: returns [item, iter]
LeIter_next(Item, iter) ==
    LET r == read_stream_le(Item, iter.stream)
    IN  [item |-> ok(r.ret), iter |-> [stream |-> r.stream]]

BeIter_next(Item, iter) ==
    LET r == read_stream_be(Item, iter.stream)
    IN  [item |-> ok(r.ret), iter |-> [stream |-> r.stream]]

----------------------------------------------------------------------------
(* Iteration: a MockStream whose cursor is set somewhere is turned into an *)
(* iterator, and the consumer calls next until it gets None.  out holds    *)
(* the items yielded so far and whether None was returned; i0 is the index *)
(* at which the iteration started.                                         *)

\* the consumer gives up after MaxItems items
MaxItems == MaxLen + 1

ItemTypes == Types \cup {"Empty"}

Iterating == out.op = "iter"

IntoLeIter(Item) ==
    /\ Idle
    /\ LET iter == into_le_iter(Stream)
       IN  index' = get_index(iter.stream)
    /\ out' = [op |-> "iter", order |-> "le", T |-> Item, items |-> <<>>, done |-> FALSE]
    /\ i0' = index
    /\ UNCHANGED <<bytes, base, sum>>

IntoBeIter(Item) ==
    /\ Idle
    /\ LET iter == into_be_iter(Stream)
       IN  index' = get_index(iter.stream)
    /\ out' = [op |-> "iter", order |-> "be", T |-> Item, items |-> <<>>, done |-> FALSE]
    /\ i0' = index
    /\ UNCHANGED <<bytes, base, sum>>

LeIterNext ==
    /\ Iterating
    /\ out.order = "le"
    /\ ~out.done
    /\ Len(out.items) < MaxItems
    /\ LET n == LeIter_next(out.T, [stream |-> Stream])
       IN  /\ index' = get_index(n.iter.stream)
           /\ out' = IF n.item.some
                     THEN [out EXCEPT !.items = Append(@, n.item.data)]
                     ELSE [out EXCEPT !.done = TRUE]
    /\ UNCHANGED <<bytes, base, i0, sum>>

BeIterNext ==
    /\ Iterating
    /\ out.order = "be"
    /\ ~out.done
    /\ Len(out.items) < MaxItems
    /\ LET n == BeIter_next(out.T, [stream |-> Stream])
       IN  /\ index' = get_index(n.iter.stream)
           /\ out' = IF n.item.some
                     THEN [out EXCEPT !.items = Append(@, n.item.data)]
                     ELSE [out EXCEPT !.done = TRUE]
    /\ UNCHANGED <<bytes, base, i0, sum>>

NextIter ==
    \/ \E i \in 0 .. MaxIndex : SetIndex(i)
    \/ \E Item \in ItemTypes : IntoLeIter(Item)
    \/ \E Item \in ItemTypes : IntoBeIter(Item)
    \/ LeIterNext
    \/ BeIterNext

SpecIter == Init /\ [][NextIter]_vars

\* the W-byte items that fit between the index i and the end of the buffer
ItemsLeft(data, i, W) == IF i > Len(data) THEN 0 ELSE (Len(data) - i) \div W

\* C19: an iterator made with into_le_iter / into_be_iter from a stream at
\* index i over len bytes, with an item type of fixed size W, yields the
\* items successive read_stream_le / read_stream_be calls return from index i
\* on, in that order, floor((len - i) / W) of them (none when i is past the
\* end), and then returns None, also when len - i is not a multiple of W.
C19_IteratorItems ==
    (Iterating /\ out.T \in Primitives) =>
        LET W == size_of(out.T)
            n == ItemsLeft(bytes, i0, W)
            reads == IF out.order = "le" THEN ElementsLe(out.T, bytes, i0, Len(out.items))
                                         ELSE ElementsBe(out.T, bytes, i0, Len(out.items))
        IN  /\ Len(out.items) <= n
            /\ reads.ok
            /\ out.items = reads.data
            /\ index = i0 + W * Len(out.items)
            /\ \A k \in 1 .. Len(out.items) :
                  out.items[k] = IF out.order = "le"
                                 THEN read_le(out.T, bytes, i0 + W * (k - 1)).data
                                 ELSE read_be(out.T, bytes, i0 + W * (k - 1)).data
            /\ out.done => Len(out.items) = n
            /\ (~out.done /\ out.order = "le") => ENABLED LeIterNext
            /\ (~out.done /\ out.order = "be") => ENABLED BeIterNext

\* two u16 yielded from index 1 of 5 bytes and then None: no byte is left over
\* for a third, and one byte before the first was skipped
C19_Witness ==
    /\ Iterating
    /\ out.order = "be"
    /\ out.T = "u16"
    /\ i0 = 1
    /\ Len(bytes) = 5
    /\ Len(out.items) = 2
    /\ out.items[1] # out.items[2]
    /\ out.done

\* C20: for every buffer and item type the iteration is finite: every item
\* yielded moved the cursor forward over at least one of the len - i bytes that
\* were left, so that at most len - i items are yielded before None; the
\* first read that fails ends the iteration, with None and not with an error,
\* and the items are those read before it.
C20_IteratorFinite ==
    Iterating =>
        LET left == IF i0 > Len(bytes) THEN 0 ELSE Len(bytes) - i0
            reads == IF out.order = "le" THEN ElementsLe(out.T, bytes, i0, Len(out.items))
                                         ELSE ElementsBe(out.T, bytes, i0, Len(out.items))
        IN  /\ Len(out.items) <= left
            /\ index >= i0 + Len(out.items)
            /\ reads.ok
            /\ out.items = reads.data
            /\ out.done =>
                  ~(IF out.order = "le" THEN read_le(out.T, bytes, index).ok
                                        ELSE read_be(out.T, bytes, index).ok)

----------------------------------------------------------------------------
(* StreamReader: the transmuting reads and the default_ variants; data_addr *)
(* is the address of the first byte of the buffer                          *)

\* a read_stream that moves the cursor only when the read succeeded
read_stream_moves_on_success(T, stream, data_addr) ==
    LET result == read(T, stream.bytes, data_addr, get_index(stream))
    IN  [ret |-> result,
         stream |-> IF result.ok THEN increment_by(stream, size_of(T)) ELSE stream]

read_stream(T, stream, data_addr) ==
    LET swapped == swap_incremented_index_for_type(T, stream)
    IN  [ret |-> read(T, stream.bytes, data_addr, swapped.index),
         stream |-> swapped.stream]

default_read_stream(T, stream, data_addr) ==
    LET swapped == swap_incremented_index_for_type(T, stream)
    IN  [ret |-> default_read(T, stream.bytes, data_addr, swapped.index),
         stream |-> swapped.stream]

default_read_stream_le(T, stream) ==
    LET swapped == swap_incremented_index_for_type(T, stream)
    IN  [ret |-> default_read_le(T, stream.bytes, swapped.index),
         stream |-> swapped.stream]

default_read_stream_be(T, stream) ==
    LET swapped == swap_incremented_index_for_type(T, stream)
    IN  [ret |-> default_read_be(T, stream.bytes, swapped.index),
         stream |-> swapped.stream]

default_read_array_stream_le(SIZE, T, stream) ==
    LET r == read_array_stream_le(SIZE, T, stream)
    IN  [ret |-> IF r.ret.ok THEN r.ret.data ELSE default_array(SIZE, T),
         stream |-> r.stream]

default_read_array_stream_be(SIZE, T, stream) ==
    LET r == read_array_stream_be(SIZE, T, stream)
    IN  [ret |-> IF r.ret.ok THEN r.ret.data ELSE default_array(SIZE, T),
         stream |-> r.stream]

----------------------------------------------------------------------------
(* The default_ stream session: a MockStream over the buffer, the cursor   *)
(* set anywhere, then calls one after the other while it is in 0..MaxIndex *)

\* the types that are both EndianRead and Default
DefaultStreamTypes == {"u8", "u16", "u32", "Test", "ListU16"}

ReadStream(T) ==
    /\ Idle
    /\ index <= MaxIndex
    /\ LET r == read_stream(T, Stream, base)
       IN  /\ index' = r.stream.index
           /\ out' = [op |-> "read_stream", T |-> T, pre |-> index, ret |-> r.ret]
    /\ UNCHANGED <<bytes, base, i0, sum>>

DefaultReadStream(T) ==
    /\ Idle
    /\ index <= MaxIndex
    /\ LET r == default_read_stream(T, Stream, base)
       IN  /\ index' = r.stream.index
           /\ out' = [op |-> "default_read_stream", T |-> T, pre |-> index, ret |-> r.ret]
    /\ UNCHANGED <<bytes, base, i0, sum>>

DefaultReadStreamLe(T) ==
    /\ Idle
    /\ index <= MaxIndex
    /\ LET r == default_read_stream_le(T, Stream)
       IN  /\ index' = r.stream.index
           /\ out' = [op |-> "default_read_stream_le", T |-> T, pre |-> index, ret |-> r.ret]
    /\ UNCHANGED <<bytes, base, i0, sum>>

DefaultReadStreamBe(T) ==
    /\ Idle
    /\ index <= MaxIndex
    /\ LET r == default_read_stream_be(T, Stream)
       IN  /\ index' = r.stream.index
           /\ out' = [op |-> "default_read_stream_be", T |-> T, pre |-> index, ret |-> r.ret]
    /\ UNCHANGED <<bytes, base, i0, sum>>

DefaultReadArrayStreamLe(SIZE, T) ==
    /\ Idle
    /\ index <= MaxIndex
    /\ LET r == default_read_array_stream_le(SIZE, T, Stream)
       IN  /\ index' = r.stream.index
           /\ out' = [op |-> "default_read_array_stream_le", T |-> T, SIZE |-> SIZE,
                      pre |-> index, ret |-> r.ret]
    /\ UNCHANGED <<bytes, base, i0, sum>>

DefaultReadArrayStreamBe(SIZE, T) ==
    /\ Idle
    /\ index <= MaxIndex
    /\ LET r == default_read_array_stream_be(SIZE, T, Stream)
       IN  /\ index' = r.stream.index
           /\ out' = [op |-> "default_read_array_stream_be", T |-> T, SIZE |-> SIZE,
                      pre |-> index, ret |-> r.ret]
    /\ UNCHANGED <<bytes, base, i0, sum>>

NextDefaultStream ==
    \/ \E i \in 0 .. MaxIndex : SetIndex(i)
    \/ \E T \in Primitives : ReadStream(T)
    \/ \E T \in Primitives : DefaultReadStream(T)
    \/ \E T \in DefaultStreamTypes : DefaultReadStreamLe(T)
    \/ \E T \in DefaultStreamTypes : DefaultReadStreamBe(T)
    \/ \E SIZE \in 0 .. MaxSize, T \in DefaultArrayTypes : DefaultReadArrayStreamLe(SIZE, T)
    \/ \E SIZE \in 0 .. MaxSize, T \in DefaultArrayTypes : DefaultReadArrayStreamBe(SIZE, T)
    \/ Drop

SpecDefaultStream == Init /\ [][NextDefaultStream]_vars

\* the stream a call of the session found
StreamBefore == [bytes |-> bytes, index |-> out.pre]

\* C21: wherever read_stream_le::<T> (resp. _be) would succeed,
\* default_read_stream_le::<T> (resp. _be) returns the same value and leaves
\* the cursor at the same index, the one before the call plus the bytes T
\* consumed, also for the types whose encoded length varies.
C21_DefaultStreamAsStream ==
    /\ out.op = "default_read_stream_le" =>
          LET r == read_stream_le(out.T, StreamBefore)
          IN  r.ret.ok => /\ out.ret = r.ret.data
                          /\ index = r.stream.index
    /\ out.op = "default_read_stream_be" =>
          LET r == read_stream_be(out.T, StreamBefore)
          IN  r.ret.ok => /\ out.ret = r.ret.data
                          /\ index = r.stream.index

\* C22: when default_read_array_stream_le cannot read all SIZE elements, the
\* array it returns holds the decoded values of the elements before the
\* failing one, and T::default() from the failing one on.
C22_DefaultArrayKeepsRead ==
    out.op = "default_read_array_stream_le" =>
        (~read_array_le(out.SIZE, out.T, bytes, out.pre).ok =>
            \A k \in 1 .. out.SIZE :
                LET upto == ElementsLe(out.T, bytes, out.pre, k)
                IN  out.ret[k] = IF upto.ok THEN upto.data[k] ELSE Default(out.T))

\* the calls that take the index with swap_incremented_index_for_type
SwappingReads ==
    {"read_stream", "default_read_stream", "default_read_stream_le", "default_read_stream_be"}

C27_AlignmentCase ==
    /\ out.op = "read_stream"
    /\ out.T = "u16"
    /\ ~out.ret.ok
    /\ out.ret.error = InvalidAlignment(2, 2, out.pre)
    /\ index = out.pre + 2

----------------------------------------------------------------------------
(* Properties of the derived writes (SpecWrite) *)

\* the bytes of a primitive field in the byte order of the call
FieldBytes(op, v, W) ==
    IF op \in {"write_le", "try_write_le"} THEN to_le_bytes(v, W) ELSE to_be_bytes(v, W)

\* C23: pad_before = N on a field adds exactly N to get_size() over the
\* size of the fields, and on encode the cursor moves N bytes on before the
\* field is written: the N bytes of the gap keep the values the destination
\* had, and the field's bytes start N bytes after the end of the previous
\* field.  For Padded {first: u8, #[pad_before = 2] second: u16}, N = 2.
C23_PadBefore ==
    (out.op \in Writes \cup TryWrites /\ out.T = "Padded") =>
        LET N == 2
            O == out.offset
        IN  /\ get_size("Padded", out.value) = (1 + 2) + N
            /\ out.ret.ok =>
                  /\ out.ret.data = (1 + 2) + N
                  /\ Len(bytes) = Len(out.pre)
                  /\ bytes[O + 1] = out.value[1]
                  /\ \A g \in 1 .. N : bytes[O + 1 + g] = out.pre[O + 1 + g]
                  /\ <<bytes[O + 1 + N + 1], bytes[O + 1 + N + 2]>> =
                        FieldBytes(out.op, out.value[2], 2)

\* the padded struct with non-zero fields written little-endian over ones:
\* the two ones stay between the fields
C23_Witness ==
    /\ out.op = "write_le"
    /\ out.T = "Padded"
    /\ out.ret.ok
    /\ out.pre = <<1, 1, 1, 1, 1>>
    /\ out.value = <<170, 258>>
    /\ bytes = <<170, 1, 1, 2, 1>>

\* C24: backtrace = N on a field takes N off get_size(), and the field is
\* written starting N bytes before the end of the previous field, over the
\* last N bytes of it.  For Backtracked {first: u16, #[backtrace = 1]
\* second: u8}: get_size() is 2 + 1 - 1 and second is the second byte written.
C24_Backtrace ==
    (out.op \in Writes \cup TryWrites /\ out.T = "Backtracked") =>
        LET N == backtrace("Backtracked")[2]
            O == out.offset
        IN  /\ get_size("Backtracked", out.value) = (2 + 1) - N
            /\ out.ret.ok =>
                  /\ out.ret.data = (2 + 1) - N
                  /\ bytes[O + 2 - N + 1] = out.value[2]

\* the structs whose fields are all primitives
FlatStructs == {"Test", "Padded", "Backtracked", "Triple"}

\* where field k of a struct starts in the destination: after the fields
\* before it and its own pad_before
RECURSIVE FieldStart(_, _)
FieldStart(T, k) ==
    IF k = 1 THEN pad_before(T)[1]
    ELSE FieldStart(T, k - 1) + size_of(DerivedFields(T)[k - 1]) + pad_before(T)[k]

\* the first field that does not fit into len bytes, 0 when all of them fit
RECURSIVE FirstFailing(_, _, _)
FirstFailing(T, k, len) ==
    IF k > Len(DerivedFields(T)) THEN 0
    ELSE IF FieldStart(T, k) + size_of(DerivedFields(T)[k]) > len THEN k
    ELSE FirstFailing(T, k + 1, len)

\* C25: a derived try_write_le / try_write_be that fails, fails at the first
\* field k that does not fit: it returns the error of that field's write, the
\* fields before k are in the destination, and every other byte of the
\* destination, those of field k and of the fields after it included, is as
\* it was.
C25_FailingField ==
    (out.op \in TryWrites /\ out.T \in FlatStructs /\ ~out.ret.ok) =>
        LET T == out.T
            k == FirstFailing(T, 1, Len(out.pre))
            Written == {i \in 1 .. Len(bytes) :
                          \E j \in 1 .. (k - 1) :
                              /\ FieldStart(T, j) < i
                              /\ i <= FieldStart(T, j) + size_of(DerivedFields(T)[j])}
        IN  /\ k > 0
            /\ out.ret.error = InvalidSize(size_of(DerivedFields(T)[k]), FieldStart(T, k),
                                           Len(out.pre))
            /\ Len(bytes) = Len(out.pre)
            /\ \A j \in 1 .. (k - 1) :
                  Slice(bytes, FieldStart(T, j), FieldStart(T, j) + size_of(DerivedFields(T)[j]))
                      = FieldBytes(out.op, out.value[j], size_of(DerivedFields(T)[j]))
            /\ \A i \in (1 .. Len(bytes)) \ Written : bytes[i] = out.pre[i]

\* Triple {u8, u32, u8} written into 4 bytes: first is written, second does
\* not fit, and third, for which there is room, is not written
C25_Witness ==
    /\ out.op = "try_write_le"
    /\ out.T = "Triple"
    /\ out.pre = <<1, 1, 1, 1>>
    /\ out.value[1] = 170
    /\ ~out.ret.ok
    /\ out.ret.error = InvalidSize(4, 1, 4)
    /\ bytes = <<170, 1, 1, 1>>

----------------------------------------------------------------------------
(* Reader: the slices over the whole machine word.  The word is scaled     *)
(* down to 0 .. usize_MAX.  `offset + size` is an unchecked usize addition: *)
(* a build with overflow checks (debug) panics on it, one without them     *)
(* (release) wraps around; indexing a slice panics when the range is not   *)
(* inside it.                                                              *)

Panic(message) == [panicked |-> TRUE, message |-> message]

Panicked(result) == "panicked" \in DOMAIN result

\* a + b on usize: Ok(the sum) or the panic
usize_add(overflow_checks, a, b) ==
    IF a + b <= usize_MAX THEN Ok(a + b)
    ELSE IF overflow_checks THEN Panic("attempt to add with overflow")
    ELSE Ok((a + b) % (usize_MAX + 1))

\* &data[from..to]
index_range(data, from, to) ==
    IF from > to THEN Panic("slice index starts after its end")
    ELSE IF to > Len(data) THEN Panic("range end index out of range for slice")
    ELSE Ok(Slice(data, from, to))

usize_get_slice_of_size(overflow_checks, data, offset, size) ==
    LET offset_end == usize_add(overflow_checks, offset, size)
    IN  IF Panicked(offset_end) THEN offset_end
        ELSE IF Len(data) < offset_end.data
        THEN Err(InvalidSize(size, offset, Len(data)))
        ELSE index_range(data, offset, offset_end.data)

usize_get_sized_slice(overflow_checks, T, data, offset) ==
    LET result_size == size_of(T)
        offset_end == usize_add(overflow_checks, offset, result_size)
    IN  IF Panicked(offset_end) THEN offset_end
        ELSE IF Len(data) < offset_end.data
        THEN Err(InvalidSize(result_size, offset, Len(data)))
        ELSE index_range(data, offset, offset_end.data)

UsizeGetSliceOfSize(overflow_checks, offset, size) ==
    /\ Idle
    /\ out' = [op |-> "get_slice_of_size", offset |-> offset, size |-> size,
               overflow_checks |-> overflow_checks,
               ret |-> usize_get_slice_of_size(overflow_checks, bytes, offset, size)]
    /\ UNCHANGED <<bytes, base, index, i0, sum>>

UsizeGetSizedSlice(overflow_checks, T, offset) ==
    /\ Idle
    /\ out' = [op |-> "get_sized_slice", offset |-> offset, size |-> size_of(T),
               overflow_checks |-> overflow_checks,
               ret |-> usize_get_sized_slice(overflow_checks, T, bytes, offset)]
    /\ UNCHANGED <<bytes, base, index, i0, sum>>

NextUsize ==
    \/ \E overflow_checks \in BOOLEAN, offset \in 0 .. usize_MAX, size \in 0 .. usize_MAX :
          UsizeGetSliceOfSize(overflow_checks, offset, size)
    \/ \E overflow_checks \in BOOLEAN, T \in Primitives, offset \in 0 .. usize_MAX :
          UsizeGetSizedSlice(overflow_checks, T, offset)
    \/ Drop

SpecUsize == Init /\ [][NextUsize]_vars

\* C26: for every buffer and every offset and size of the machine word,
\* those whose sum is larger than the largest word included,
\* get_slice_of_size and get_sized_slice return a slice that lies inside the
\* buffer or an InvalidSize error, and never panic.
C26_NoPanic ==
    out.op \in {"get_slice_of_size", "get_sized_slice"} =>
        /\ ~Panicked(out.ret)
        /\ out.ret.ok =>
              /\ out.offset + out.size <= Len(bytes)
              /\ out.ret.data = Slice(bytes, out.offset, out.offset + out.size)
        /\ ~out.ret.ok => out.ret.error = InvalidSize(out.size, out.offset, Len(bytes))

----------------------------------------------------------------------------
(* Decoding and transmuting reads side by side: the buffer at any address, *)
(* a primitive read at any offset with read_le, read_be or read            *)

NextAlign ==
    \/ \E T \in Primitives, offset \in Offsets : ReadLe(T, offset)
    \/ \E T \in Primitives, offset \in Offsets : ReadBe(T, offset)
    \/ \E T \in Primitives, offset \in Offsets : Read(T, offset)
    \/ Drop

SpecAlign == InitTransmute /\ [][NextAlign]_vars

\* C28: read_le / read_be of a primitive of W bytes succeed at every offset O
\* with O + W <= len, whatever the address of the bytes is modulo the type's
\* alignment, and never return InvalidAlignment; read::<T> at such an offset
\* fails with InvalidAlignment when the address is not a multiple of the
\* alignment.
C28_NoAlignmentForEndianReads ==
    /\ out.op \in {"read_le", "read_be"} =>
          /\ out.offset + size_of(out.T) <= Len(bytes) => out.ret.ok
          /\ ~out.ret.ok => out.ret.error.kind # "InvalidAlignment"
    /\ (out.op = "read" /\ out.offset + size_of(out.T) <= Len(bytes)) =>
          IF (base + out.offset) % align_of(out.T) # 0
          THEN out.ret = Err(InvalidAlignment(size_of(out.T), size_of(out.T), out.offset))
          ELSE out.ret.ok

\* a u32 decoded by read_le from an odd offset of an aligned buffer
C28_Witness ==
    /\ out.op = "read_le"
    /\ out.T = "u32"
    /\ base = 0
    /\ out.offset = 1
    /\ bytes = <<0, 1, 0, 0, 0>>
    /\ out.ret = Ok(1)

----------------------------------------------------------------------------
(* More properties of the stream session (specification Spec) *)

EndianStreamReads ==
    {"read_stream_le", "read_stream_be", "read_array_stream_le", "read_array_stream_be"}

\* C29: a read_stream_le, read_stream_be, read_array_stream_le or
\* read_array_stream_be call on a primitive item type that finds the cursor
\* at an index not greater than the buffer length leaves it, whether it
\* succeeds or fails, at an index that is not smaller and not greater than the
\* buffer length; so it is after any sequence of such calls.
C29_CursorStaysInside ==
    [][(Idle /\ out'.op \in EndianStreamReads /\ index <= Len(bytes)) =>
          (out'.T \in Primitives => (index <= index' /\ index' <= Len(bytes')))]_vars

\* an array of two u16 read from index 1 up to the last byte of the buffer
C29_Witness ==
    /\ out.op = "read_array_stream_le"
    /\ out.T = "u16"
    /\ out.SIZE = 2
    /\ out.ret.ok
    /\ out.pre = 1
    /\ index = out.pre + 4
    /\ index = Len(bytes)

\* C30: read_array_stream_le (resp. _be) with the cursor at i returns what
\* read_array_le(i) (resp. read_array_be(i)) returns on the same buffer, the
\* same array or the same error with the same absolute offset, and when it
\* succeeds the cursor is at i plus the bytes the SIZE elements consumed.
C30_ArrayStreamAsArrayRead ==
    /\ out.op = "read_array_stream_le" =>
          /\ out.ret = read_array_le(out.SIZE, out.T, bytes, out.pre)
          /\ out.ret.ok => index = ElementsLe(out.T, bytes, out.pre, out.SIZE).end
    /\ out.op = "read_array_stream_be" =>
          /\ out.ret = read_array_be(out.SIZE, out.T, bytes, out.pre)
          /\ out.ret.ok => index = ElementsBe(out.T, bytes, out.pre, out.SIZE).end

\* two lists of different encoded lengths read from index 1: 3 bytes and 1 byte
C30_Witness ==
    /\ out.op = "read_array_stream_le"
    /\ out.T = "ListU16"
    /\ out.SIZE = 2
    /\ out.pre = 1
    /\ out.ret.ok
    /\ Len(out.ret.data[1]) = 1
    /\ Len(out.ret.data[2]) = 0
    /\ index = 5

\* a u16 array that fails at its second element, at absolute offset 3
C30_ErrorCase ==
    /\ out.op = "read_array_stream_le"
    /\ out.T = "u16"
    /\ out.SIZE = 2
    /\ out.pre = 1
    /\ out.ret = Err(InvalidSize(2, 3, 4))
    /\ index = 1

====
